---- MODULE Spec2Model ----
(***************************************************************************)
(* A model of the azalea Minecraft client core.                            *)
(*                                                                         *)
(* The module holds one state machine per subsystem; each has its own      *)
(* variables, initial predicate, next-state relation and specification,    *)
(* and leaves the variables of the other subsystems untouched:             *)
(*                                                                         *)
(*   SpecHandshake  Client::handshake        azalea-client/src/client.rs   *)
(*   SpecConfig     configuration packets    packet_handling/configuration *)
(*   SpecMove       send_position            azalea-client/src/movement.rs *)
(*   SpecSprint     walk / sprint / ai_step  movement.rs, pathfinder       *)
(*   SpecOutbound   outbound packet channel  azalea-client/src/client.rs   *)
(*   SpecRunner     ECS runner and its lock  azalea-client/src/runner.rs   *)
(*   SpecNbt        NbtCompound              azalea-nbt/src/tag.rs         *)
(*   SpecVoxel      BitSetDiscreteVoxelShape azalea-physics/src/collision  *)
(*   SpecWorld      Dimension's entities     azalea-world/src/lib.rs       *)
(*   SpecStandable  pathfinder block tests   azalea/src/pathfinder/moves.rs *)
(*   SpecMoves      moves and their search   azalea/src/pathfinder/moves.rs *)
(*   SpecPathfinder goto and path computing  azalea/src/pathfinder/mod.rs   *)
(***************************************************************************)
EXTENDS Integers, Sequences, FiniteSets, TLC

VARIABLES
    \* ---- Client::handshake (client.rs:184-300)
    hs_pc,          \* position inside the async fn
    hs_proto,       \* protocol state of `conn`: Handshake, Login, Game
    hs_account,     \* [token |-> BOOLEAN]: does the account have an access token
    hs_attempts,    \* local `attempts`
    hs_secret,      \* local `e.secret_key` of the EncryptionRequest being handled
    hs_cipher,      \* key installed by set_encryption_key, NoKey if none
    hs_threshold,   \* compression threshold, NoThreshold if none
    hs_log,         \* everything the function did on the connection, in order
    hs_result,      \* what the function returned, NoResult while running
    \* ---- configuration state of one client entity (packet_handling/configuration.rs)
    cf_pc,          \* the system of the schedule run that runs next
    cf_state,       \* RawConnection's protocol state: Configuration or Game
    cf_in_config,   \* the entity has the InConfigurationState component
    cf_added,       \* InConfigurationState was added and not yet seen by Added<..>
    cf_joined,      \* the entity has the JoinedClientBundle components
    cf_client_info, \* the entity's ClientInformation component
    cf_sent,        \* number of frames the server has sent so far
    cf_finished,    \* the server has sent its FinishConfiguration
    cf_queue,       \* RawConnection::incoming_packet_queue (raw frames)
    cf_events,      \* Events<PacketEvent>
    cf_send_events, \* Events<SendConfigurationPacketEvent> not yet handled
    cf_decoded,     \* how each frame taken from the queue was deserialised
    cf_handed,      \* the events process_packet_events has handled, in order
    cf_written,     \* packets given to RawConnection::write_packet, in order
    \* ---- send_position for one local entity (movement.rs:154-262)
    mv_position,            \* Position, in units of 1.0e-4 blocks
    mv_last_sent_position,  \* LastSentPosition, same units
    mv_direction,           \* LookDirection [y_rot, x_rot]
    mv_last_direction,      \* LastSentLookDirection
    mv_position_remainder,  \* PhysicsState::position_remainder (u32)
    mv_on_ground,           \* Physics::on_ground
    mv_last_on_ground,      \* Physics::last_on_ground
    mv_in_loaded_chunk,     \* the entity has the InLoadedChunk component
    mv_tick,                \* the last run of send_position: the state it found and
                            \* the SendPacketEvents it sent; NoTick after any other step
    mv_told,                \* the position and the rotation carried by the most recent
                            \* packets that carried one (<<>> before the first)
    mv_quiet,               \* history: the runs of send_position that visited the entity
                            \* since the last packet that carried a position
    \* ---- walking and sprinting (movement.rs:381-614, pathfinder/execute.rs:139-272)
    sp_player,      \* the client's own player: Sprinting, Attributes.speed, PhysicsState
    sp_walk_events, \* the StartWalkEvents the Update schedule has not read yet
    sp_sprint_events, \* the StartSprintEvents it has not read yet
    sp_sim,         \* the player of a pathfinder Simulation, NoSim if there is none
    sp_sim_ticks,   \* Simulation::tick calls made on it
    \* ---- sprint and sneak commands of one local entity (movement.rs:264-317)
    cmd_entity,     \* Sprinting, ShiftKeyDown, PhysicsState::was_sprinting / was_sneaking
    cmd_tick,       \* the last game tick: what it found and the SendPacketEvents it sent
    cmd_log,        \* every PlayerCommand action sent for the entity, in order
    \* ---- one BitSet (azalea-core/src/bitset.rs)
    bs_size,            \* the `size` given to BitSet::new
    bs_data,            \* BitSet::data: Vec<u64>, each word as the set of its 1 bits
    bs_overflow_checks, \* the build checks arithmetic overflow (debug) or wraps (release)
    bs_op,              \* the last call: its arguments, the data before it, did it panic
    \* ---- one call of a_star (azalea/src/pathfinder/astar.rs)
    as_cost,        \* the graph given by `successors`: the cost of each edge
    as_heuristic,   \* `heuristic`, a value for every node
    as_success,     \* the nodes for which `success` is true
    as_open,        \* open_set: the priority of every node in it (Reverse(Weight(f)))
    as_nodes,       \* nodes: HashMap<P, Node>
    as_pc,          \* "loop" while in the `while let`, "done" after the return
    as_result,      \* the value returned: [some |-> FALSE] or [some |-> TRUE, path |-> ..]
    \* ---- one entity following a path (pathfinder/execute.rs, pathfinder/mod.rs)
    px_pc,              \* "physics" inside a game tick, after tick_execute_path;
                        \* "frame" between the systems of a frame
    px_ticks,           \* game ticks run since the last Update
    px_path,            \* Pathfinder::path
    px_queued_path,     \* Pathfinder::queued_path: <<>> for None, <<path>> for Some(path)
    px_current_target_node, \* Pathfinder::current_target_node: <<>> or <<target>>
    px_position,        \* BlockPos::from(Position)
    px_on_ground,       \* Physics::on_ground
    px_entity,          \* PhysicsState, Sprinting and Attributes.speed of the entity
    px_sprint_events,   \* StartSprintEvents not yet read by handle_sprint
    px_walk_events,     \* StartWalkEvents not yet read by handle_walk
    px_tick,            \* the last run of tick_execute_path: what it found and did
    px_listen,          \* the last PathFoundEvent handled: what the listener found
    px_emptied,         \* a tick since the last Update reached the last movement
    px_update,          \* the last Update: had such a tick run before it
    \* ---- one call of can_walk_to_position (pathfinder/execute.rs:139-162)
    cw_target,      \* settings.target: BlockPos [x, y]
    cw_start_pos,   \* start_pos: [x, y], y in half blocks
    cw_position,    \* simulation.position() after the last tick
    cw_collision,   \* simulation.horizontal_collision() after the last tick
    cw_ticks,       \* iterations of `for _ in 0..20` begun
    cw_result,      \* "running", or the value returned: "true" / "false"
    cw_history,      \* what each simulation.tick() left: position and collision
    \* ---- the outbound packet channel of one connection (client.rs:139-160)
    wq_capacity,    \* <<>> for a channel without capacity, <<k>> for capacity k
    wq_queue,       \* packets sent into the channel and not yet received by write_task
    wq_written,      \* packets write_task has received and written to the connection
    \* ---- the ECS runner and the Client methods that lock the ECS (runner.rs:33-57)
    ru_pc,          \* the runner task: "select", "lock", "run"
    ru_trigger,     \* what woke the runner: "tick" or "signal"
    ru_system,      \* the system of the schedule that runs next, while in "run"
    ru_lock,        \* who holds the Mutex<Ecs>: "none", "runner" or a caller
    ru_signals,     \* messages waiting in the run_schedule channel
    ru_tick,        \* has the 50 ms interval fired and not been taken yet
    ru_api,         \* per caller: "idle", or the method that holds the lock, or "done"
    ru_log,          \* run starts, run ends and effects of Client methods, in order
    \* ---- one NbtCompound (azalea-nbt/src/tag.rs:270-342)
    nbt_inner,      \* the Vec `inner`: entries [name, value] in the order iter() yields
    nbt_inserted,   \* the entries in the order in which they were inserted
    nbt_calls,       \* insert / insert_unsorted calls made since Init
    \* ---- one BitSetDiscreteVoxelShape (discrete_voxel_shape.rs:49-170)
    vx_shape,       \* the struct: sizes, storage (a BitSet), x_min .. z_max
    vx_fills,        \* the cells <<x, y, z>> that have been set in the storage
    vx_made,        \* the constructor the shape came from: new, with_filled_bounds, join
    \* ---- one Dimension's entities (azalea-world/src/lib.rs:67-111)
    wd_entities,    \* entity_storage: entity id -> position, for the ids it holds
    wd_by_chunk,    \* entity_storage's index: chunk -> ids of the entities in it
    wd_last,        \* the last call: its arguments, its result and the state before it
    wd_calls,        \* calls made so far
    \* ---- the block tests of the pathfinder's moves (pathfinder/moves.rs:7-35)
    st_world,       \* the loaded column of the world: position -> block
    st_pos,         \* the position last asked about, [x, y]
    st_answer,       \* what the three tests returned for it
    \* ---- the pathfinder's moves and one a_star over them (pathfinder/moves.rs, mod.rs)
    mo_world,       \* the loaded world: position -> block
    mo_sets,        \* blocks changed so far
    mo_asked,       \* the last call of the successors closure: its node and its edges
    mo_goal,        \* the BlockPosGoal's pos, NoGoal before a_star is called
    mo_open,        \* a_star's open_set: position -> priority, NotQueued if absent
    mo_nodes,       \* a_star's nodes map
    mo_pc,          \* idle, loop (inside a_star's while), done
    mo_result,       \* what a_star returned, with the g_score of the position popped
    \* ---- the path computations of one pathfinder entity (pathfinder/mod.rs:121-268)
    pf_goal,        \* Pathfinder::goal, <<>> for None
    pf_goal_events, \* the SetPathfinderGoalEvents goto_listener has not read yet
    pf_gotos,       \* goto calls made so far
    pf_computing,   \* Pathfinder::computing
    pf_tasks,       \* the ComputePath tasks: running or finished, with the path found
    pf_path,        \* Pathfinder::path, the targets of its movements
    pf_queued_path, \* Pathfinder::queued_path, <<>> for None
    pf_position,    \* the block the entity stands on
    pf_applied      \* history: a PathFoundEvent has been applied

hsVars == <<hs_pc, hs_proto, hs_account, hs_attempts, hs_secret, hs_cipher,
            hs_threshold, hs_log, hs_result>>

cfVars == <<cf_pc, cf_state, cf_in_config, cf_added, cf_joined, cf_client_info, cf_sent,
            cf_finished, cf_queue, cf_events, cf_send_events, cf_decoded, cf_handed,
            cf_written>>

mvVars == <<mv_position, mv_last_sent_position, mv_direction, mv_last_direction,
            mv_position_remainder, mv_on_ground, mv_last_on_ground, mv_in_loaded_chunk,
            mv_tick, mv_told, mv_quiet>>

spVars == <<sp_player, sp_walk_events, sp_sprint_events, sp_sim, sp_sim_ticks>>

cmdVars == <<cmd_entity, cmd_tick, cmd_log>>

bsVars == <<bs_size, bs_data, bs_overflow_checks, bs_op>>

asVars == <<as_cost, as_heuristic, as_success, as_open, as_nodes, as_pc, as_result>>

cwVars == <<cw_target, cw_start_pos, cw_position, cw_collision, cw_ticks, cw_result,
            cw_history>>

pxVars == <<px_pc, px_ticks, px_path, px_queued_path, px_current_target_node, px_position,
            px_on_ground, px_entity, px_sprint_events, px_walk_events, px_tick, px_listen,
            px_emptied, px_update>>

wqVars == <<wq_capacity, wq_queue, wq_written>>

ruVars == <<ru_pc, ru_trigger, ru_system, ru_lock, ru_signals, ru_tick, ru_api, ru_log>>

nbtVars == <<nbt_inner, nbt_inserted, nbt_calls>>

vxVars == <<vx_shape, vx_fills, vx_made>>

wdVars == <<wd_entities, wd_by_chunk, wd_last, wd_calls>>

stVars == <<st_world, st_pos, st_answer>>

moVars == <<mo_world, mo_sets, mo_asked, mo_goal, mo_open, mo_nodes, mo_pc, mo_result>>

pfVars == <<pf_goal, pf_goal_events, pf_gotos, pf_computing, pf_tasks, pf_path, pf_queued_path, pf_position, pf_applied>>

vars == <<hsVars, cfVars, mvVars, spVars, cmdVars, bsVars, asVars, pxVars, cwVars, wqVars, ruVars, nbtVars, vxVars, wdVars, stVars, moVars, pfVars>>

\* what the actions of one subsystem leave alone
hsOther == <<cfVars, mvVars, spVars, cmdVars, bsVars, asVars, pxVars, cwVars, wqVars, ruVars, nbtVars, vxVars, wdVars, stVars, moVars, pfVars>>
cfOther == <<hsVars, mvVars, spVars, cmdVars, bsVars, asVars, pxVars, cwVars, wqVars, ruVars, nbtVars, vxVars, wdVars, stVars, moVars, pfVars>>
mvOther == <<hsVars, cfVars, spVars, cmdVars, bsVars, asVars, pxVars, cwVars, wqVars, ruVars, nbtVars, vxVars, wdVars, stVars, moVars, pfVars>>
spOther == <<hsVars, cfVars, mvVars, cmdVars, bsVars, asVars, pxVars, cwVars, wqVars, ruVars, nbtVars, vxVars, wdVars, stVars, moVars, pfVars>>
cmdOther == <<hsVars, cfVars, mvVars, spVars, bsVars, asVars, pxVars, cwVars, wqVars, ruVars, nbtVars, vxVars, wdVars, stVars, moVars, pfVars>>
bsOther == <<hsVars, cfVars, mvVars, spVars, cmdVars, asVars, pxVars, cwVars, wqVars, ruVars, nbtVars, vxVars, wdVars, stVars, moVars, pfVars>>
asOther == <<hsVars, cfVars, mvVars, spVars, cmdVars, bsVars, pxVars, cwVars, wqVars, ruVars, nbtVars, vxVars, wdVars, stVars, moVars, pfVars>>
pxOther == <<hsVars, cfVars, mvVars, spVars, cmdVars, bsVars, asVars, cwVars, wqVars, ruVars, nbtVars, vxVars, wdVars, stVars, moVars, pfVars>>
cwOther == <<hsVars, cfVars, mvVars, spVars, cmdVars, bsVars, asVars, pxVars, wqVars, ruVars, nbtVars, vxVars, wdVars, stVars, moVars, pfVars>>
wqOther == <<hsVars, cfVars, mvVars, spVars, cmdVars, bsVars, asVars, pxVars, cwVars, ruVars, nbtVars, vxVars, wdVars, stVars, moVars, pfVars>>
ruOther == <<hsVars, cfVars, mvVars, spVars, cmdVars, bsVars, asVars, pxVars, cwVars, wqVars, nbtVars, vxVars, wdVars, stVars, moVars, pfVars>>
nbtOther == <<hsVars, cfVars, mvVars, spVars, cmdVars, bsVars, asVars, pxVars, cwVars, wqVars, ruVars, vxVars, wdVars, stVars, moVars, pfVars>>
vxOther == <<hsVars, cfVars, mvVars, spVars, cmdVars, bsVars, asVars, pxVars, cwVars, wqVars, ruVars, nbtVars, wdVars, stVars, moVars, pfVars>>
wdOther == <<hsVars, cfVars, mvVars, spVars, cmdVars, bsVars, asVars, pxVars, cwVars, wqVars, ruVars, nbtVars, vxVars, stVars, moVars, pfVars>>
stOther == <<hsVars, cfVars, mvVars, spVars, cmdVars, bsVars, asVars, pxVars, cwVars, wqVars, ruVars, nbtVars, vxVars, wdVars, moVars, pfVars>>
moOther == <<hsVars, cfVars, mvVars, spVars, cmdVars, bsVars, asVars, pxVars, cwVars, wqVars, ruVars, nbtVars, vxVars, wdVars, stVars, pfVars>>
pfOther == <<hsVars, cfVars, mvVars, spVars, cmdVars, bsVars, asVars, pxVars, cwVars, wqVars, ruVars, nbtVars, vxVars, wdVars, stVars, moVars>>

None == "None"

(***************************************************************************)
(* Client::handshake                                                        *)
(***************************************************************************)
NoKey == "NoKey"
NoThreshold == "NoThreshold"
NoResult == [kind |-> "running", what |-> None]

\* The number of login packets one handshake reads in the model.
MaxLoginReads == 3

\* Secrets azalea_crypto::encrypt may generate for an EncryptionRequest.
Secrets == {"k1", "k2"}
Thresholds == {256}
Profiles == {"bot"}

\* ClientSessionServerError, as far as handshake tells its values apart.
AuthErrors == {"InvalidSession", "ForbiddenOperation", "Unknown"}
AuthResults == {"Ok"} \cup AuthErrors
RefreshResults == {"Ok", "AuthError"}

HsEvent(ev, pkt, arg) == [ev |-> ev, pkt |-> pkt, arg |-> arg, enc |-> hs_cipher # NoKey]

HsCount(ev) == Cardinality({i \in 1..Len(hs_log) : hs_log[i].ev = ev})
HsReads == HsCount("read")

\* `return Err(e)` / the `?` operator
HsFail(what) ==
    /\ hs_pc' = "failed"
    /\ hs_result' = [kind |-> "err", what |-> what]

\* conn.write(..).await? : the packet goes out, or the write fails and handshake returns
HsWrite(pkt, arg, nextPc) ==
    \/ /\ hs_log' = Append(hs_log, HsEvent("write", pkt, arg))
       /\ hs_pc' = nextPc
       /\ UNCHANGED hs_result
    \/ /\ HsFail("Io")
       /\ UNCHANGED hs_log

\* client.rs:196-206
HsWriteIntention ==
    /\ hs_pc = "intention"
    /\ HsWrite("ClientIntention", "Login", "hello")
    /\ hs_proto' = IF hs_pc' = "hello" THEN "Login" ELSE hs_proto
    /\ UNCHANGED <<hs_account, hs_attempts, hs_secret, hs_cipher, hs_threshold>>
    /\ UNCHANGED hsOther

\* client.rs:209-216
HsWriteHello ==
    /\ hs_pc = "hello"
    /\ HsWrite("Hello", None, "read")
    /\ UNCHANGED <<hs_proto, hs_account, hs_attempts, hs_secret, hs_cipher, hs_threshold>>
    /\ UNCHANGED hsOther

\* client.rs:219: conn.read().await?
HsReadFails ==
    /\ hs_pc = "read"
    /\ HsReads < MaxLoginReads
    /\ HsFail("Read")
    /\ UNCHANGED <<hs_proto, hs_account, hs_attempts, hs_secret, hs_cipher, hs_threshold, hs_log>>
    /\ UNCHANGED hsOther

\* client.rs:221-228: an EncryptionRequest arrives, the first of the handshake
\* or a later one; encrypt() draws the secret
HsReadHello ==
    /\ hs_pc = "read"
    /\ HsReads < MaxLoginReads
    /\ \E s \in Secrets : hs_secret' = s
    /\ hs_log' = Append(hs_log, HsEvent("read", "Hello", None))
    /\ hs_attempts' = 1
    /\ hs_pc' = IF hs_account.token THEN "auth" ELSE "key"
    /\ UNCHANGED <<hs_proto, hs_account, hs_cipher, hs_threshold, hs_result>>
    /\ UNCHANGED hsOther

\* client.rs:242-257: what follows an authenticate() that returned `r`
AfterAuthenticateLate(r, attempts) ==
    IF r = "Ok" THEN "key"
    ELSE IF attempts >= 3 THEN "failed"
    ELSE IF r \in {"InvalidSession", "ForbiddenOperation"} THEN "refresh"
    ELSE "failed"

AfterAuthenticateGoesOn(r, attempts) ==
    IF r = "Ok" THEN "key"
    ELSE IF attempts >= 2 THEN "key"
    ELSE IF r \in {"InvalidSession", "ForbiddenOperation"} THEN "refresh"
    ELSE "failed"

AfterAuthenticate(r, attempts) ==
    IF r = "Ok" THEN "key"
    ELSE IF attempts >= 2 THEN "failed"
    ELSE IF r \in {"InvalidSession", "ForbiddenOperation"} THEN "refresh"
    ELSE "failed"

\* client.rs:230-241: conn.authenticate(..).await
HsAuthenticate ==
    /\ hs_pc = "auth"
    /\ \E r \in AuthResults :
        /\ hs_log' = Append(hs_log, HsEvent("authenticate", None, r))
        /\ hs_pc' = AfterAuthenticate(r, hs_attempts)
        /\ hs_result' = IF hs_pc' = "failed" THEN [kind |-> "err", what |-> r] ELSE hs_result
    /\ UNCHANGED <<hs_proto, hs_account, hs_attempts, hs_secret, hs_cipher, hs_threshold>>
    /\ UNCHANGED hsOther

\* client.rs:254, 258: account.refresh().await?; attempts += 1
HsRefresh ==
    /\ hs_pc = "refresh"
    /\ \E r \in RefreshResults :
        /\ hs_log' = Append(hs_log, HsEvent("refresh", None, r))
        /\ IF r = "Ok"
             THEN /\ hs_pc' = "auth"
                  /\ hs_attempts' = hs_attempts + 1
                  /\ UNCHANGED hs_result
             ELSE /\ HsFail("Refresh")
                  /\ UNCHANGED hs_attempts
    /\ UNCHANGED <<hs_proto, hs_account, hs_secret, hs_cipher, hs_threshold>>
    /\ UNCHANGED hsOther

\* client.rs:262-269: the ServerboundKeyPacket carries e's secret, RSA-encrypted
HsWriteKey ==
    /\ hs_pc = "key"
    /\ HsWrite("Key", hs_secret, "setkey")
    /\ UNCHANGED <<hs_proto, hs_account, hs_attempts, hs_secret, hs_cipher, hs_threshold>>
    /\ UNCHANGED hsOther

\* client.rs:271: the key handed to set_encryption_key
InstalledKeyOther(secret) == CHOOSE s \in Secrets : s # secret

InstalledKey(secret) == secret

HsSetEncryptionKey ==
    /\ hs_pc = "setkey"
    /\ hs_cipher' = InstalledKey(hs_secret)
    /\ hs_log' = Append(hs_log, [ev |-> "set_encryption_key", pkt |-> None,
                                 arg |-> hs_cipher', enc |-> FALSE])
    /\ hs_pc' = "read"
    /\ UNCHANGED <<hs_proto, hs_account, hs_attempts, hs_secret, hs_threshold,
                   hs_result>>
    /\ UNCHANGED hsOther

\* client.rs:273-276
HsReadLoginCompression ==
    /\ hs_pc = "read"
    /\ HsReads < MaxLoginReads
    /\ \E t \in Thresholds :
        /\ hs_log' = Append(hs_log, HsEvent("read", "LoginCompression", t))
        /\ hs_threshold' = t
    /\ UNCHANGED <<hs_pc, hs_proto, hs_account, hs_attempts, hs_secret, hs_cipher, hs_result>>
    /\ UNCHANGED hsOther

\* client.rs:279  conn.game(), the connection left in Login
game_stays_login(proto) == proto

\* client.rs:279  conn.game(): the protocol state of the connection it returns
game(proto) == "Game"

\* client.rs:277-280: break (conn.game(), p.game_profile)
HsReadGameProfile ==
    /\ hs_pc = "read"
    /\ HsReads < MaxLoginReads
    /\ \E p \in Profiles :
        /\ hs_log' = Append(hs_log, HsEvent("read", "GameProfile", p))
        /\ hs_result' = [kind |-> "ok", what |-> p]
    /\ hs_proto' = game(hs_proto)
    /\ hs_pc' = "done"
    /\ UNCHANGED <<hs_account, hs_attempts, hs_secret, hs_cipher, hs_threshold>>
    /\ UNCHANGED hsOther

\* client.rs:281-284
HsReadLoginDisconnect ==
    /\ hs_pc = "read"
    /\ HsReads < MaxLoginReads
    /\ hs_log' = Append(hs_log, HsEvent("read", "LoginDisconnect", None))
    /\ HsFail("Disconnect")
    /\ UNCHANGED <<hs_proto, hs_account, hs_attempts, hs_secret, hs_cipher, hs_threshold>>
    /\ UNCHANGED hsOther

\* client.rs:285-295
HsReadCustomQuery ==
    /\ hs_pc = "read"
    /\ HsReads < MaxLoginReads
    /\ hs_log' = Append(hs_log, HsEvent("read", "CustomQuery", None))
    /\ hs_pc' = "query"
    /\ UNCHANGED <<hs_proto, hs_account, hs_attempts, hs_secret, hs_cipher, hs_threshold, hs_result>>
    /\ UNCHANGED hsOther

HsAnswerCustomQuery ==
    /\ hs_pc = "query"
    /\ HsWrite("CustomQuery", None, "read")
    /\ UNCHANGED <<hs_proto, hs_account, hs_attempts, hs_secret, hs_cipher, hs_threshold>>
    /\ UNCHANGED hsOther

HsInit ==
    /\ hs_pc = "intention"
    /\ hs_proto = "Handshake"
    /\ hs_account \in {[token |-> b] : b \in BOOLEAN}
    /\ hs_attempts = 1
    /\ hs_secret = NoKey
    /\ hs_cipher = NoKey
    /\ hs_threshold = NoThreshold
    /\ hs_log = <<>>
    /\ hs_result = NoResult

HsNext ==
    \/ HsWriteIntention
    \/ HsWriteHello
    \/ HsReadFails
    \/ HsReadHello
    \/ HsAuthenticate
    \/ HsRefresh
    \/ HsWriteKey
    \/ HsSetEncryptionKey
    \/ HsReadLoginCompression
    \/ HsReadGameProfile
    \/ HsReadLoginDisconnect
    \/ HsReadCustomQuery
    \/ HsAnswerCustomQuery

HsIdle ==
    /\ hs_pc = "idle"
    /\ hs_proto = "Handshake"
    /\ hs_account = [token |-> FALSE]
    /\ hs_attempts = 1
    /\ hs_secret = NoKey
    /\ hs_cipher = NoKey
    /\ hs_threshold = NoThreshold
    /\ hs_log = <<>>
    /\ hs_result = NoResult

(***************************************************************************)
(* Configuration state: ingress dispatch and the switch to Game            *)
(***************************************************************************)
\* The number of frames the server sends in the model.
MaxFrames == 3

\* Ids of the clientbound configuration packets the model tells apart.
ConfigurationPacketName(id) ==
    CASE id = 2 -> "FinishConfiguration"
      [] id = 3 -> "KeepAlive"
      [] OTHER -> "Unknown"

\* Frame ids a server sends while it is in Configuration (9 is not a packet id of
\* that phase) and once it is in Game (2 is also a Configuration id, 41 is not).
ServerConfigurationIds == {3, 9}
ServerGameIds == {2, 41}
\* Ids of the Configuration frames that may arrive with a body that cannot be read.
MalformedIds == {3}

\* deserialize_packet::<ClientboundConfigurationPacket>: decided by the frame's id
\* and by whether the body can be read as that packet (frame.intact), whatever
\* phase the server was in when it sent the frame.
DeserializeConfiguration(frame) ==
    LET name == ConfigurationPacketName(frame.id)
    IN  [ok |-> name # "Unknown" /\ frame.intact, n |-> frame.n, packet |-> name]

\* configuration.rs:34  packet_events.clear()
EventsNotCleared(events) == events

EventsAfterClear(events) == <<>>

\* configuration.rs:55  packets.clear()
QueueNotCleared(queue) == queue

QueueAfterRead(queue) == <<>>

\* configuration.rs:39-53, giving up on the batch at the first frame that fails
EventsOfBatchUntilError(queue) ==
    LET failed == {i \in 1..Len(queue) : ~DeserializeConfiguration(queue[i]).ok}
        last == IF failed = {} THEN Len(queue)
                ELSE (CHOOSE i \in failed : \A j \in failed : i <= j) - 1
    IN  [i \in 1..last |->
            [n |-> queue[i].n, packet |-> DeserializeConfiguration(queue[i]).packet]]

\* configuration.rs:39-53: one PacketEvent per frame that deserialises
EventsOfBatch(queue) ==
    LET keep(frame) == DeserializeConfiguration(frame).ok
        event(frame) == [n |-> frame.n, packet |-> DeserializeConfiguration(frame).packet]
    IN  LET kept == SelectSeq(queue, keep)
        IN  [i \in 1..Len(kept) |-> event(kept[i])]

DecodedAs(queue, phase) ==
    LET entry(frame) ==
            [n |-> frame.n, phase |-> frame.phase, id |-> frame.id, as |-> phase,
             ok |-> IF phase = "Configuration" THEN DeserializeConfiguration(frame).ok
                    ELSE frame.phase = "Game"]
    IN  [i \in 1..Len(queue) |-> entry(queue[i])]

\* The reader task: the next frame of the server's stream is appended to the
\* incoming queue. The server sends Configuration frames, then its
\* FinishConfiguration, then Game frames; it need not wait for the client's reply.
CfReaderAppend ==
    /\ cf_sent < MaxFrames
    /\ \E frame \in
            IF ~cf_finished
            THEN {[n |-> cf_sent + 1, phase |-> "Configuration", id |-> i, intact |-> TRUE] :
                      i \in ServerConfigurationIds \cup {2}}
                 \cup {[n |-> cf_sent + 1, phase |-> "Configuration", id |-> i,
                        intact |-> FALSE] : i \in MalformedIds}
            ELSE {[n |-> cf_sent + 1, phase |-> "Game", id |-> i, intact |-> TRUE] :
                      i \in ServerGameIds} :
        /\ cf_queue' = Append(cf_queue, frame)
        /\ cf_finished' = (cf_finished \/ (frame.phase = "Configuration" /\ frame.id = 2))
    /\ cf_sent' = cf_sent + 1
    /\ UNCHANGED <<cf_pc, cf_state, cf_in_config, cf_added, cf_joined, cf_client_info,
                   cf_events, cf_send_events, cf_decoded, cf_handed, cf_written>>
    /\ UNCHANGED cfOther

\* configuration.rs:27-58
send_packet_events ==
    /\ cf_pc = "send_packet_events"
    /\ cf_pc' = "game_send_packet_events"
    /\ IF cf_in_config /\ cf_queue # <<>>
         THEN /\ cf_events' = EventsAfterClear(cf_events) \o EventsOfBatch(cf_queue)
              /\ cf_decoded' = cf_decoded \o DecodedAs(cf_queue, "Configuration")
              /\ cf_queue' = QueueAfterRead(cf_queue)
         ELSE /\ cf_events' = EventsAfterClear(cf_events)
              /\ UNCHANGED <<cf_queue, cf_decoded>>
    /\ UNCHANGED <<cf_state, cf_in_config, cf_added, cf_joined, cf_client_info, cf_sent,
                   cf_finished, cf_send_events, cf_handed, cf_written>>
    /\ UNCHANGED cfOther

\* The Game state's ingress system: an entity that has left the Configuration
\* state has its queue deserialised with the Game packet set.
game_send_packet_events ==
    /\ cf_pc = "game_send_packet_events"
    /\ cf_pc' = "process_packet_events"
    /\ IF ~cf_in_config /\ cf_queue # <<>>
         THEN /\ cf_decoded' = cf_decoded \o DecodedAs(cf_queue, "Game")
              /\ cf_queue' = <<>>
         ELSE UNCHANGED <<cf_queue, cf_decoded>>
    /\ UNCHANGED <<cf_state, cf_in_config, cf_added, cf_joined, cf_client_info, cf_sent,
                   cf_finished, cf_events, cf_send_events, cf_handed, cf_written>>
    /\ UNCHANGED cfOther

\* The part of the entity process_packet_events reads and writes.
CfEntity ==
    [state |-> cf_state, in_config |-> cf_in_config, joined |-> cf_joined,
     client_info |-> cf_client_info, written |-> cf_written]

\* RawConnection::write_packet: the packet is serialised and queued for the writer
\* task; `state` is the connection's protocol state at that moment.
write_packet(e, name, phase) ==
    [e EXCEPT !.written = Append(@, [packet |-> name, phase |-> phase, state |-> e.state])]

set_state(e, state) == [e EXCEPT !.state = state]

\* configuration.rs:111-128
EnterGame(e) ==
    [e EXCEPT !.in_config = FALSE, !.joined = TRUE, !.client_info = "default"]

\* configuration.rs:92-129, with set_state before write_packet
OnFinishConfigurationSwapped(e) ==
    EnterGame(write_packet(set_state(e, "Game"), "FinishConfiguration", "Configuration"))

\* configuration.rs:92-129
OnFinishConfiguration(e) ==
    EnterGame(set_state(write_packet(e, "FinishConfiguration", "Configuration"), "Game"))

\* configuration.rs:72-136: the match on one event
ProcessEvent(e, event) ==
    IF event.packet = "FinishConfiguration" THEN OnFinishConfiguration(e) ELSE e

RECURSIVE ProcessEvents(_, _)
ProcessEvents(e, events) ==
    IF events = <<>> THEN e
    ELSE ProcessEvents(ProcessEvent(e, Head(events)), Tail(events))

\* configuration.rs:60-137: a fresh EventReader sees every event in the buffer
process_packet_events ==
    /\ cf_pc = "process_packet_events"
    /\ cf_pc' = "handle_send_packet_event"
    /\ LET e == ProcessEvents(CfEntity, cf_events)
       IN  /\ cf_state' = e.state
           /\ cf_in_config' = e.in_config
           /\ cf_joined' = e.joined
           /\ cf_client_info' = e.client_info
           /\ cf_written' = e.written
    /\ cf_handed' = cf_handed \o cf_events
    /\ UNCHANGED <<cf_added, cf_sent, cf_finished, cf_queue, cf_events, cf_send_events,
                   cf_decoded>>
    /\ UNCHANGED cfOther

\* The system that takes the SendConfigurationPacketEvents and writes their
\* packets to the entity's RawConnection.
handle_send_packet_event ==
    /\ cf_pc = "handle_send_packet_event"
    /\ cf_pc' = "handle_in_configuration_state"
    /\ cf_written' = cf_written \o
            [i \in 1..Len(cf_send_events) |->
                [packet |-> cf_send_events[i], phase |-> "Configuration", state |-> cf_state]]
    /\ cf_send_events' = <<>>
    /\ UNCHANGED <<cf_state, cf_in_config, cf_added, cf_joined, cf_client_info, cf_sent,
                   cf_finished, cf_queue, cf_events, cf_decoded, cf_handed>>
    /\ UNCHANGED cfOther

\* configuration.rs:41-66, run after handle_send_packet_event (configuration.rs:19-23)
handle_in_configuration_state ==
    /\ cf_pc = "handle_in_configuration_state"
    /\ cf_pc' = "send_packet_events"
    /\ cf_send_events' =
            IF cf_in_config /\ cf_added
            THEN cf_send_events \o <<"CustomPayload(brand)", "ClientInformation">>
            ELSE cf_send_events
    /\ cf_added' = FALSE
    /\ UNCHANGED <<cf_state, cf_in_config, cf_joined, cf_client_info, cf_sent, cf_finished,
                   cf_queue, cf_events, cf_decoded, cf_handed, cf_written>>
    /\ UNCHANGED cfOther

\* A client entity that has just entered the Configuration state.
CfInit ==
    /\ cf_pc = "send_packet_events"
    /\ cf_state = "Configuration"
    /\ cf_in_config = TRUE
    /\ cf_added = TRUE
    /\ cf_joined = FALSE
    /\ cf_client_info \in {"default", "custom"}
    /\ cf_sent = 0
    /\ cf_finished = FALSE
    /\ cf_queue = <<>>
    /\ cf_events = <<>>
    /\ cf_send_events = <<>>
    /\ cf_decoded = <<>>
    /\ cf_handed = <<>>
    /\ cf_written = <<>>

CfIdle ==
    /\ cf_pc = "idle"
    /\ cf_state = "Configuration"
    /\ cf_in_config = TRUE
    /\ cf_added = TRUE
    /\ cf_joined = FALSE
    /\ cf_client_info = "default"
    /\ cf_sent = 0
    /\ cf_finished = FALSE
    /\ cf_queue = <<>>
    /\ cf_events = <<>>
    /\ cf_send_events = <<>>
    /\ cf_decoded = <<>>
    /\ cf_handed = <<>>
    /\ cf_written = <<>>

CfNext ==
    \/ CfReaderAppend
    \/ send_packet_events
    \/ game_send_packet_events
    \/ process_packet_events
    \/ handle_send_packet_event
    \/ handle_in_configuration_state
(***************************************************************************)
(* send_position                                                           *)
(***************************************************************************)
\* Positions are counted in units of 1.0e-4 blocks, so that the threshold
\* 2.0e-4 of movement.rs:194 is the integer 2.
MoveEpsilon == 2
\* movement.rs:195
PositionRemainderLimit == 20

Vec3(x, y, z) == [x |-> x, y |-> y, z |-> z]
\* Places the physics step may put the entity: squared distances 1 .. 5 between
\* them, on either side of MoveEpsilon squared.
Positions == {Vec3(0, 0, 0), Vec3(2, 0, 0), Vec3(1, 1, 1), Vec3(2, 1, 0)}
Rotations == {[y_rot |-> y, x_rot |-> x] : y \in {0, 90}, x \in {0, 45}}
NoTick == [ran |-> FALSE]

Square(a) == a * a

\* movement.rs:183-185, 193-195
SendingPositionAtThreshold(position, last_sent_position, position_remainder) ==
    \/ Square(position.x - last_sent_position.x) + Square(position.y - last_sent_position.y)
         + Square(position.z - last_sent_position.z) >= Square(MoveEpsilon)
    \/ position_remainder >= PositionRemainderLimit

SendingPositionPastLimit(position, last_sent_position, position_remainder) ==
    \/ Square(position.x - last_sent_position.x) + Square(position.y - last_sent_position.y)
         + Square(position.z - last_sent_position.z) > Square(MoveEpsilon)
    \/ position_remainder > PositionRemainderLimit

SendingPosition(position, last_sent_position, position_remainder) ==
    \/ Square(position.x - last_sent_position.x) + Square(position.y - last_sent_position.y)
         + Square(position.z - last_sent_position.z) > Square(MoveEpsilon)
    \/ position_remainder >= PositionRemainderLimit

\* movement.rs:186-187, 196
SendingDirection(direction, last_direction) ==
    \/ direction.y_rot - last_direction.y_rot # 0
    \/ direction.x_rot - last_direction.x_rot # 0

\* movement.rs:201-241, asking for the rotation first
MovePacketRotationFirst(sending_position, sending_direction, position, direction, on_ground, last_on_ground) ==
    IF sending_direction
    THEN <<[kind |-> "Rot", direction |-> direction, on_ground |-> on_ground]>>
    ELSE IF sending_position
    THEN <<[kind |-> "Pos", position |-> position, on_ground |-> on_ground]>>
    ELSE IF last_on_ground # on_ground
    THEN <<[kind |-> "StatusOnly", on_ground |-> on_ground]>>
    ELSE <<>>

\* movement.rs:201-231, without the StatusOnly branch
MovePacketWithoutStatus(sending_position, sending_direction, position, direction, on_ground, last_on_ground) ==
    IF sending_position /\ sending_direction
    THEN <<[kind |-> "PosRot", position |-> position, direction |-> direction,
            on_ground |-> on_ground]>>
    ELSE IF sending_position
    THEN <<[kind |-> "Pos", position |-> position, on_ground |-> on_ground]>>
    ELSE IF sending_direction
    THEN <<[kind |-> "Rot", direction |-> direction, on_ground |-> on_ground]>>
    ELSE <<>>

\* movement.rs:201-241: the packet, <<>> for None
MovePacket(sending_position, sending_direction, position, direction, on_ground, last_on_ground) ==
    IF sending_position /\ sending_direction
    THEN <<[kind |-> "PosRot", position |-> position, direction |-> direction,
            on_ground |-> on_ground]>>
    ELSE IF sending_position
    THEN <<[kind |-> "Pos", position |-> position, on_ground |-> on_ground]>>
    ELSE IF sending_direction
    THEN <<[kind |-> "Rot", direction |-> direction, on_ground |-> on_ground]>>
    ELSE IF last_on_ground # on_ground
    THEN <<[kind |-> "StatusOnly", on_ground |-> on_ground]>>
    ELSE <<>>

\* movement.rs:243-246  LastSentPosition after the tick, updated or not
LastSentPositionStale(sending_position, position, last_sent_position) == last_sent_position

LastSentPositionAfter(sending_position, position, last_sent_position) ==
    IF sending_position THEN position ELSE last_sent_position

\* movement.rs:247-250  LastSentLookDirection after the tick
LastSentLookDirectionAfter(sending_direction, direction, last_direction) ==
    IF sending_direction
    THEN [y_rot |-> direction.y_rot, x_rot |-> direction.x_rot]
    ELSE last_direction

\* what the server has been told, once the packets of a tick are added
MvTold(told, packets) ==
    LET carries(field) == {i \in 1..Len(packets) : field \in DOMAIN packets[i]}
        last(field, old) ==
            IF carries(field) = {} THEN old
            ELSE <<packets[CHOOSE i \in carries(field) :
                               \A j \in carries(field) : j <= i][field]>>
    IN  [position |-> last("position", told.position),
         direction |-> last("direction", told.direction)]

\* what send_position finds when it starts
MvFound ==
    [ran |-> TRUE,
     position |-> mv_position, last_sent_position |-> mv_last_sent_position,
     direction |-> mv_direction, last_direction |-> mv_last_direction,
     position_remainder |-> mv_position_remainder, quiet |-> mv_quiet,
     on_ground |-> mv_on_ground, last_on_ground |-> mv_last_on_ground,
     in_loaded_chunk |-> mv_in_loaded_chunk]

\* movement.rs:154-262: one run of the system. The query is With<InLoadedChunk>:
\* an entity without the component is not visited at all.
send_position ==
    /\ IF mv_in_loaded_chunk
         THEN LET position_remainder == mv_position_remainder + 1   \* u32, stays below 2^32
                  sending_position ==
                      SendingPosition(mv_position, mv_last_sent_position, position_remainder)
                  sending_direction == SendingDirection(mv_direction, mv_last_direction)
                  packet == MovePacket(sending_position, sending_direction, mv_position,
                                       mv_direction, mv_on_ground, mv_last_on_ground)
              IN  /\ mv_last_sent_position' =
                        LastSentPositionAfter(sending_position, mv_position,
                                              mv_last_sent_position)
                  /\ mv_position_remainder' =
                        IF sending_position THEN 0 ELSE position_remainder
                  /\ mv_last_direction' =
                        LastSentLookDirectionAfter(sending_direction, mv_direction,
                                                   mv_last_direction)
                  /\ mv_last_on_ground' = mv_on_ground
                  /\ mv_tick' = [MvFound EXCEPT !.ran = TRUE] @@ [packets |-> packet]
                  /\ mv_told' = MvTold(mv_told, packet)
                  /\ mv_quiet' = IF \E i \in 1..Len(packet) : "position" \in DOMAIN packet[i]
                                   THEN 0 ELSE mv_quiet + 1
         ELSE /\ mv_tick' = MvFound @@ [packets |-> <<>>]
              /\ UNCHANGED <<mv_last_sent_position, mv_position_remainder, mv_last_direction,
                             mv_last_on_ground, mv_told, mv_quiet>>
    /\ UNCHANGED <<mv_position, mv_direction, mv_on_ground, mv_in_loaded_chunk>>
    /\ UNCHANGED mvOther

\* The physics step of the tick moves the entity and decides on_ground.
MvPhysicsStep ==
    /\ \E p \in Positions : mv_position' = p
    /\ \E g \in BOOLEAN : mv_on_ground' = g
    /\ mv_tick' = NoTick
    /\ UNCHANGED <<mv_last_sent_position, mv_direction, mv_last_direction,
                   mv_position_remainder, mv_last_on_ground, mv_in_loaded_chunk, mv_told,
                   mv_quiet>>
    /\ UNCHANGED mvOther

\* movement.rs:102-107  Client::set_direction
set_direction ==
    /\ \E d \in Rotations : mv_direction' = d
    /\ mv_tick' = NoTick
    /\ UNCHANGED <<mv_position, mv_last_sent_position, mv_last_direction,
                   mv_position_remainder, mv_on_ground, mv_last_on_ground,
                   mv_in_loaded_chunk, mv_told, mv_quiet>>
    /\ UNCHANGED mvOther

\* azalea_entity::update_in_loaded_chunk: the chunk under the entity is loaded or not
update_in_loaded_chunk ==
    /\ \E b \in BOOLEAN : mv_in_loaded_chunk' = b
    /\ mv_tick' = NoTick
    /\ UNCHANGED <<mv_position, mv_last_sent_position, mv_direction, mv_last_direction,
                   mv_position_remainder, mv_on_ground, mv_last_on_ground, mv_told,
                   mv_quiet>>
    /\ UNCHANGED mvOther

\* A freshly spawned local entity: PhysicsState::default(),
\* LastSentLookDirection::default(), nothing sent yet.
MvInit ==
    /\ mv_position \in Positions
    /\ mv_last_sent_position = mv_position
    /\ mv_direction = [y_rot |-> 0, x_rot |-> 0]
    /\ mv_last_direction = [y_rot |-> 0, x_rot |-> 0]
    /\ mv_position_remainder = 0
    /\ mv_on_ground = FALSE
    /\ mv_last_on_ground = FALSE
    /\ mv_in_loaded_chunk = FALSE
    /\ mv_tick = NoTick
    /\ mv_told = [position |-> <<>>, direction |-> <<>>]
    /\ mv_quiet = 0

MvIdle ==
    /\ mv_position = Vec3(0, 0, 0)
    /\ mv_last_sent_position = mv_position
    /\ mv_direction = [y_rot |-> 0, x_rot |-> 0]
    /\ mv_last_direction = [y_rot |-> 0, x_rot |-> 0]
    /\ mv_position_remainder = 0
    /\ mv_on_ground = FALSE
    /\ mv_last_on_ground = FALSE
    /\ mv_in_loaded_chunk = FALSE
    /\ mv_tick = NoTick
    /\ mv_told = [position |-> <<>>, direction |-> <<>>]
    /\ mv_quiet = 0

MvNext ==
    \/ send_position
    \/ MvPhysicsStep
    \/ set_direction
    \/ update_in_loaded_chunk

(***************************************************************************)
(* Walking and sprinting                                                   *)
(***************************************************************************)
\* Impulses are counted in tenths: 1.0 is 10, the 0.8 of movement.rs:612 is 8 and
\* the sneaking multiplier 0.3 of movement.rs:392 is 3.
SprintImpulse == 8
SneakingMultiplier == 3
\* Client::walk calls, and Client::sprint calls, between two runs of the Update
\* schedule
MaxPendingMoveEvents == 1
\* execute.rs:151: ticks one forward simulation runs
SimulationTicks == 20

WalkDirections == {"None", "Forward", "Backward", "Left", "Right", "ForwardRight",
                   "ForwardLeft", "BackwardRight", "BackwardLeft"}
SprintDirections == {"Forward", "ForwardRight", "ForwardLeft"}
NoSim == [spawned |-> FALSE]
\* azalea_entity::attributes::sprinting_modifier(), by its uuid
sprinting_modifier == "sprinting"

\* AttributeInstance::insert / remove on Attributes.speed: the modifiers are keyed
\* by uuid; insert fails and changes nothing when the uuid is present.
AttributeInsert(modifiers, m) == modifiers \cup {m}
AttributeRemove(modifiers, m) == modifiers \ {m}

\* movement.rs:588-605
set_sprinting(sprinting, e) ==
    [e EXCEPT !.sprinting = sprinting,
              !.speed_modifiers = IF sprinting THEN AttributeInsert(@, sprinting_modifier)
                                  ELSE AttributeRemove(@, sprinting_modifier)]

\* movement.rs:550-562, for the entity of the event
handle_walk(e, direction) ==
    set_sprinting(FALSE, [e EXCEPT !.move_direction = direction, !.trying_to_sprint = FALSE])

\* movement.rs:573-583, 668-676
handle_sprint(e, direction) ==
    [e EXCEPT !.move_direction = direction, !.trying_to_sprint = TRUE]

\* movement.rs:328-379; can_player_fit_within_blocks_and_entities_when is `true`
update_sneaking(e) ==
    [e EXCEPT !.sneaking = ~e.flying /\ ~e.swimming /\ TRUE /\ (e.shift_key_down \/ ~TRUE)]

\* movement.rs:381-428, without a sneaking speed bonus
tick_controls(e) ==
    LET forward == IF e.move_direction \in {"Forward", "ForwardRight", "ForwardLeft"} THEN 10
                   ELSE IF e.move_direction \in {"Backward", "BackwardRight", "BackwardLeft"}
                   THEN -10 ELSE 0
        left == IF e.move_direction \in {"Right", "ForwardRight", "BackwardRight"} THEN 10
                ELSE IF e.move_direction \in {"Left", "ForwardLeft", "BackwardLeft"}
                THEN -10 ELSE 0
    IN  IF e.sneaking
        THEN [e EXCEPT !.forward_impulse = (forward * SneakingMultiplier) \div 10,
                       !.left_impulse = (left * SneakingMultiplier) \div 10]
        ELSE [e EXCEPT !.forward_impulse = forward, !.left_impulse = left]

\* movement.rs:608-614
has_enough_impulse_to_start_sprinting(e) == e.forward_impulse > SprintImpulse

\* movement.rs:432-466
local_player_ai_step(e) ==
    IF e.in_loaded_chunk /\ ~e.sprinting /\ has_enough_impulse_to_start_sprinting(e)
       /\ e.trying_to_sprint
    THEN set_sprinting(TRUE, e)
    ELSE e

\* movement.rs:61-74: the systems of one game tick, chained
SpGameTick(e) == local_player_ai_step(tick_controls(update_sneaking(e)))

RECURSIVE HandleSprintEvents(_, _, _)
HandleSprintEvents(e, events, k) ==
    IF k > Len(events) THEN e ELSE HandleSprintEvents(handle_sprint(e, events[k]), events, k + 1)
RECURSIVE HandleWalkEvents(_, _, _)
HandleWalkEvents(e, events, k) ==
    IF k > Len(events) THEN e ELSE HandleWalkEvents(handle_walk(e, events[k]), events, k + 1)

\* movement.rs:57-62, handle_walk put before handle_sprint
MoveEventsSetWalkFirst(e, sprint_events, walk_events) ==
    HandleSprintEvents(HandleWalkEvents(e, walk_events, 1), sprint_events, 1)

\* movement.rs:57-62: (handle_sprint, handle_walk, ..).chain() in Update
MoveEventsSet(e, sprint_events, walk_events) ==
    HandleWalkEvents(HandleSprintEvents(e, sprint_events, 1), walk_events, 1)

\* A Simulation is built, ticked and dropped inside one run of tick_execute_path
\* (can_walk_to_position), so the player's own systems and the Client calls, which
\* need the ECS, act only while no Simulation exists.

\* movement.rs:485-491  Client::walk: the StartWalkEvent is sent, nothing else
SpStartWalkEvent ==
    /\ ~sp_sim.spawned
    /\ Len(sp_walk_events) < MaxPendingMoveEvents
    /\ \E d \in WalkDirections : sp_walk_events' = Append(sp_walk_events, d)
    /\ UNCHANGED <<sp_player, sp_sprint_events, sp_sim, sp_sim_ticks>>
    /\ UNCHANGED spOther

\* movement.rs:508-514  Client::sprint: the StartSprintEvent is sent, nothing else
SpStartSprintEvent ==
    /\ ~sp_sim.spawned
    /\ Len(sp_sprint_events) < MaxPendingMoveEvents
    /\ \E d \in SprintDirections : sp_sprint_events' = Append(sp_sprint_events, d)
    /\ UNCHANGED <<sp_player, sp_walk_events, sp_sim, sp_sim_ticks>>
    /\ UNCHANGED spOther

\* movement.rs:53-60: the Update schedule reads the events sent since its last
\* run, handle_sprint first and handle_walk after it
SpUpdate ==
    /\ ~sp_sim.spawned
    /\ sp_player' = MoveEventsSet(sp_player, sp_sprint_events, sp_walk_events)
    /\ sp_walk_events' = <<>>
    /\ sp_sprint_events' = <<>>
    /\ UNCHANGED <<sp_sim, sp_sim_ticks>>
    /\ UNCHANGED spOther

\* movement.rs:526-530  Client::sneak
SpSneak ==
    /\ ~sp_sim.spawned
    /\ \E b \in BOOLEAN : sp_player' = [sp_player EXCEPT !.shift_key_down = b]
    /\ UNCHANGED <<sp_walk_events, sp_sprint_events, sp_sim, sp_sim_ticks>>
    /\ UNCHANGED spOther

SpUpdateInLoadedChunk ==
    /\ ~sp_sim.spawned
    /\ \E b \in BOOLEAN : sp_player' = [sp_player EXCEPT !.in_loaded_chunk = b]
    /\ UNCHANGED <<sp_walk_events, sp_sprint_events, sp_sim, sp_sim_ticks>>
    /\ UNCHANGED spOther

SpPlayerTick ==
    /\ ~sp_sim.spawned
    /\ sp_player' = SpGameTick(sp_player)
    /\ UNCHANGED <<sp_walk_events, sp_sprint_events, sp_sim, sp_sim_ticks>>
    /\ UNCHANGED spOther

\* execute.rs:48-53, 205-257: the simulated player gets clones of the player's
\* PhysicsState and Attributes, and Sprinting(false); the StartSprintEvents of
\* its App are with it
SimulationNew(player) ==
    [player EXCEPT !.sprinting = FALSE, !.shift_key_down = FALSE, !.sneaking = FALSE,
                   !.in_loaded_chunk = TRUE] @@ [spawned |-> TRUE, sprint_events |-> <<>>]

\* execute.rs:72-78, 144: tick_execute_path tries a skip-ahead target
SpSimulationNew ==
    /\ ~sp_sim.spawned
    /\ sp_sim' = SimulationNew(sp_player)
    /\ sp_sim_ticks' = 0
    /\ UNCHANGED <<sp_player, sp_walk_events, sp_sprint_events>>
    /\ UNCHANGED spOther

\* execute.rs:151-152, 258-261: Simulation::tick runs FixedUpdate, where
\* simulation_tick turns the head, and app.update(). The systems PlayerMovePlugin
\* puts in GameTick (update_sneaking, tick_controls, local_player_ai_step) are
\* not run by either, so of the player's movement systems only handle_sprint
\* and handle_walk of Update act on the simulated player. simulation_init
\* (execute.rs:163-174) sends its StartSprintEvent in the first update only
\* (Added<MinecraftEntityId>); it is not ordered with handle_sprint, which reads
\* the event in the same update when it runs after simulation_init and in the
\* next update otherwise.
SpSimulationTick ==
    /\ sp_sim.spawned
    /\ sp_sim_ticks < SimulationTicks
    /\ \E init_first \in IF sp_sim_ticks = 0 THEN BOOLEAN ELSE {FALSE} :
          LET sent == IF sp_sim_ticks = 0 THEN <<"Forward">> ELSE <<>>
              read == IF init_first THEN sp_sim.sprint_events \o sent
                      ELSE sp_sim.sprint_events
              left == IF init_first THEN <<>> ELSE sent
          IN  sp_sim' = [MoveEventsSet(sp_sim, read, <<>>) EXCEPT !.sprint_events = left]
    /\ sp_sim_ticks' = sp_sim_ticks + 1
    /\ UNCHANGED <<sp_player, sp_walk_events, sp_sprint_events>>
    /\ UNCHANGED spOther

\* execute.rs:155-161: can_walk_to_position returns and the Simulation is dropped
SpSimulationDrop ==
    /\ sp_sim.spawned
    /\ sp_sim_ticks >= 1
    /\ sp_sim' = NoSim
    /\ sp_sim_ticks' = 0
    /\ UNCHANGED <<sp_player, sp_walk_events, sp_sprint_events>>
    /\ UNCHANGED spOther

SpPlayerDefault ==
    [sprinting |-> FALSE, speed_modifiers |-> {}, move_direction |-> "None",
     trying_to_sprint |-> FALSE, forward_impulse |-> 0, left_impulse |-> 0,
     shift_key_down |-> FALSE, sneaking |-> FALSE, flying |-> FALSE, swimming |-> FALSE,
     in_loaded_chunk |-> FALSE]

\* A local player as spawned: Sprinting(false), no modifier, PhysicsState::default()
SpInit ==
    /\ \E f, w \in BOOLEAN : sp_player = [SpPlayerDefault EXCEPT !.flying = f, !.swimming = w]
    /\ sp_walk_events = <<>>
    /\ sp_sprint_events = <<>>
    /\ sp_sim = NoSim
    /\ sp_sim_ticks = 0

SpIdle ==
    /\ sp_player = SpPlayerDefault
    /\ sp_walk_events = <<>>
    /\ sp_sprint_events = <<>>
    /\ sp_sim = NoSim
    /\ sp_sim_ticks = 0

SpNext ==
    \/ SpStartWalkEvent
    \/ SpStartSprintEvent
    \/ SpUpdate
    \/ SpSneak
    \/ SpUpdateInLoadedChunk
    \/ SpPlayerTick
    \/ SpSimulationNew
    \/ SpSimulationTick
    \/ SpSimulationDrop

(***************************************************************************)
(* send_sprinting_if_needed, send_shift_key_down_if_needed                 *)
(***************************************************************************)
\* PlayerCommand packets sent for the entity before the game ticks stop
MaxCommands == 6

\* movement.rs:272-276, the two actions exchanged
SprintingActionSwapped(sprinting) ==
    IF sprinting THEN "StopSprinting" ELSE "StartSprinting"

\* movement.rs:272-276
SprintingAction(sprinting) ==
    IF sprinting THEN "StartSprinting" ELSE "StopSprinting"

\* movement.rs:300-304
SneakingAction(sneaking) ==
    IF sneaking THEN "PressShiftKey" ELSE "ReleaseShiftKey"

\* movement.rs:264-289, for one entity of the query: the entity afterwards
\* and the SendPacketEvents sent
send_sprinting_if_needed(e) ==
    LET was_sprinting == e.was_sprinting
    IN  IF e.sprinting # was_sprinting
        THEN [e |-> [e EXCEPT !.was_sprinting = e.sprinting],
              packets |-> <<SprintingAction(e.sprinting)>>]
        ELSE [e |-> e, packets |-> <<>>]

\* movement.rs:291-317
send_shift_key_down_if_needed(e) ==
    LET was_sneaking == e.was_sneaking
    IN  IF e.shift_key_down # was_sneaking
        THEN [e |-> [e EXCEPT !.was_sneaking = e.shift_key_down],
              packets |-> <<SneakingAction(e.shift_key_down)>>]
        ELSE [e |-> e, packets |-> <<>>]

\* movement.rs:69-71: the two systems of a game tick, chained
CmdGameTick ==
    /\ Len(cmd_log) + 2 <= MaxCommands
    /\ LET sprint == send_sprinting_if_needed(cmd_entity)
           shift == send_shift_key_down_if_needed(sprint.e)
       IN  /\ cmd_entity' = shift.e
           /\ cmd_tick' = [ran |-> TRUE, found |-> cmd_entity,
                           packets |-> sprint.packets \o shift.packets]
           /\ cmd_log' = cmd_log \o sprint.packets \o shift.packets
    /\ UNCHANGED cmdOther

\* movement.rs:588-605: set_sprinting, called by handle_walk (false) and by
\* local_player_ai_step (true)
CmdSetSprinting ==
    /\ \E b \in BOOLEAN : cmd_entity' = [cmd_entity EXCEPT !.sprinting = b]
    /\ cmd_tick' = [ran |-> FALSE]
    /\ UNCHANGED cmd_log
    /\ UNCHANGED cmdOther

\* movement.rs:526-530  Client::sneak
CmdSneak ==
    /\ \E b \in BOOLEAN : cmd_entity' = [cmd_entity EXCEPT !.shift_key_down = b]
    /\ cmd_tick' = [ran |-> FALSE]
    /\ UNCHANGED cmd_log
    /\ UNCHANGED cmdOther

\* Sprinting(false), ShiftKeyDown(false), PhysicsState::default()
CmdInit ==
    /\ cmd_entity = [sprinting |-> FALSE, shift_key_down |-> FALSE,
                     was_sprinting |-> FALSE, was_sneaking |-> FALSE]
    /\ cmd_tick = [ran |-> FALSE]
    /\ cmd_log = <<>>

CmdIdle ==
    /\ cmd_entity = [sprinting |-> FALSE, shift_key_down |-> FALSE,
                     was_sprinting |-> FALSE, was_sneaking |-> FALSE]
    /\ cmd_tick = [ran |-> FALSE]
    /\ cmd_log = <<>>

CmdNext ==
    \/ CmdGameTick
    \/ CmdSetSprinting
    \/ CmdSneak

(***************************************************************************)
(* BitSet                                                                  *)
(***************************************************************************)
\* bits of a u64
WordBits == 64
\* u64::MAX
WordMax == 0..(WordBits - 1)

\* arguments of new, of set / index, and of clear
BitSetSizes == {64, 100, 128}
BitIndexes == {0, 1, 63, 64, 65, 127}
ClearIndexes == {0, 1, 63, 64, 65, 127, 128, 192}

\* usize::div_ceil
DivCeil(a, b) == (a + b - 1) \div b

\* bitset.rs:12-16; Vec index i of the code is index i + 1 here
BitSetNew(size) == [w \in 1..DivCeil(size, WordBits) |-> {}]

\* bitset.rs:18-20, testing bit 0 of the word in place of bit index % 64
BitSetIndexLowBit(data, index) ==
    (data[index \div WordBits + 1] \cap {0}) # {}

\* bitset.rs:18-20
BitSetIndex(data, index) ==
    (data[index \div WordBits + 1] \cap {index % WordBits}) # {}

\* bitset.rs:31-33
word_index(bit_index) == bit_index \div WordBits

\* bitset.rs:73-76
BitSetLen(data) == Len(data) * WordBits

\* bitset.rs:94-96
BitSetSet(data, bit_index) ==
    [data EXCEPT ![bit_index \div WordBits + 1] = @ \cup {bit_index % WordBits}]

\* u64::MAX << k and u64::MAX >> k. A shift by 64 or more is an arithmetic
\* overflow: a build with overflow checks panics, a build without them shifts
\* by k % 64.
ShiftOverflows(k) == k >= WordBits
ShlMax(k) == {i \in WordMax : i >= k % WordBits}
ShrMax(k) == {i \in WordMax : i + (k % WordBits) <= WordBits - 1}

\* bitset.rs:35-71: the data afterwards and whether the call panicked
BitSetClear(data, from_index, to_index0, overflow_checks) ==
    IF ~(from_index <= to_index0) THEN [panic |-> TRUE, data |-> data]
    ELSE IF from_index = to_index0 THEN [panic |-> FALSE, data |-> data]
    ELSE
    LET start_word_index == word_index(from_index)
    IN  IF start_word_index >= Len(data) THEN [panic |-> FALSE, data |-> data]
        ELSE
        LET beyond == word_index(to_index0 - 1) >= Len(data)
            to_index == IF beyond THEN BitSetLen(data) ELSE to_index0
            end_word_index == IF beyond THEN Len(data) - 1 ELSE word_index(to_index0 - 1)
            last_shift == WordBits - (to_index % WordBits)
            first_word_mask == ShlMax(from_index)
            last_word_mask == ShrMax(last_shift)
        IN  IF overflow_checks /\ (ShiftOverflows(from_index) \/ ShiftOverflows(last_shift))
            THEN [panic |-> TRUE, data |-> data]
            ELSE IF start_word_index = end_word_index
            THEN [panic |-> FALSE,
                  data |-> [data EXCEPT ![start_word_index + 1] =
                                @ \ (first_word_mask \cap last_word_mask)]]
            ELSE [panic |-> FALSE,
                  data |-> [w \in 1..Len(data) |->
                              IF w = start_word_index + 1 THEN data[w] \ first_word_mask
                              ELSE IF w = end_word_index + 1 THEN data[w] \ last_word_mask
                              ELSE IF start_word_index + 1 < w /\ w < end_word_index + 1
                              THEN {}
                              ELSE data[w]]]

\* bitset.rs:94-96; an index beyond the Vec panics
BsSet ==
    /\ ~bs_op.panic
    /\ \E i \in BitIndexes :
          IF i \div WordBits < Len(bs_data)
          THEN /\ bs_data' = BitSetSet(bs_data, i)
               /\ bs_op' = [kind |-> "set", a |-> i, b |-> i, before |-> bs_data,
                            panic |-> FALSE]
          ELSE /\ bs_data' = bs_data
               /\ bs_op' = [kind |-> "set", a |-> i, b |-> i, before |-> bs_data,
                            panic |-> TRUE]
    /\ UNCHANGED <<bs_size, bs_overflow_checks>>
    /\ UNCHANGED bsOther

\* bitset.rs:35-71
BsClear ==
    /\ ~bs_op.panic
    /\ \E a, b \in ClearIndexes :
          LET r == BitSetClear(bs_data, a, b, bs_overflow_checks)
          IN  /\ bs_data' = r.data
              /\ bs_op' = [kind |-> "clear", a |-> a, b |-> b, before |-> bs_data,
                           panic |-> r.panic]
    /\ UNCHANGED <<bs_size, bs_overflow_checks>>
    /\ UNCHANGED bsOther

\* bitset.rs:12-16, in a debug or in a release build
BsInit ==
    /\ bs_size \in BitSetSizes
    /\ bs_data = BitSetNew(bs_size)
    /\ bs_overflow_checks \in BOOLEAN
    /\ bs_op = [kind |-> "new", a |-> 0, b |-> 0, before |-> bs_data, panic |-> FALSE]

BsIdle ==
    /\ bs_size = 64
    /\ bs_data = BitSetNew(bs_size)
    /\ bs_overflow_checks = TRUE
    /\ bs_op = [kind |-> "new", a |-> 0, b |-> 0, before |-> bs_data, panic |-> FALSE]

BsNext ==
    \/ BsSet
    \/ BsClear

(***************************************************************************)
(* a_star                                                                  *)
(***************************************************************************)
\* W::max_value(), above every sum of costs that can arise here
WMax == 1000
\* W::default()
WDefault == 0

\* The graphs searched: five positions; position 5 has no edge into it. Every
\* edge is a Movement to `target` whose data is the edge's number.
AStarPositions == 1..5
AStarStart == 1
AStarEdges == <<[from |-> 1, target |-> 2], [from |-> 1, target |-> 3],
                [from |-> 2, target |-> 3], [from |-> 3, target |-> 2],
                [from |-> 2, target |-> 4], [from |-> 3, target |-> 4],
                [from |-> 4, target |-> 1], [from |-> 4, target |-> 3]>>
AStarCosts == {1, 3}
\* goals.rs:47-50: the heuristic of an InverseGoal is negative
AStarHeuristics == {-2, 0, 1, 2}
AStarSuccessSets == {{4}, {3}, {3, 4}, {1}, {5}}
AStarAnyHeuristics == {-2, 0, 5}

\* successors(p): Vec<Edge>, in the order of AStarEdges
successors(cost, p) ==
    LET ids == SelectSeq([i \in 1..Len(AStarEdges) |-> i],
                         LAMBDA i : AStarEdges[i].from = p)
    IN  [k \in 1..Len(ids) |->
            [movement |-> [target |-> AStarEdges[ids[k]].target, data |-> ids[k]],
             cost |-> cost[ids[k]]]]

NoNode == [known |-> FALSE]
NotQueued == WMax + 1

\* astar.rs:44-47, 37-40, with unwrap_or(W::default())
GScoreDefaultWhenUnknown(nodes, p) == IF nodes[p].known THEN nodes[p].g_score ELSE WDefault

\* astar.rs:44-47, 37-40
GScore(nodes, p) == IF nodes[p].known THEN nodes[p].g_score ELSE WMax

\* astar.rs:48, taking a position only the first time it is seen
ImprovesOnlyWhenNew(tentative_g_score, neighbor_g_score) ==
    neighbor_g_score = WMax

\* astar.rs:48
Improves(tentative_g_score, neighbor_g_score) ==
    tentative_g_score < neighbor_g_score

\* astar.rs:42-62: the `for neighbor in successors(current_node)` loop from its
\* i-th edge on; PriorityQueue::push of a queued item replaces its priority
RECURSIVE Relax(_, _, _, _, _, _)
Relax(nodes, open, heuristic, current_node, edges, i) ==
    IF i > Len(edges) THEN [nodes |-> nodes, open |-> open]
    ELSE
    LET neighbor == edges[i]
        target == neighbor.movement.target
        tentative_g_score == GScore(nodes, current_node) + neighbor.cost
        neighbor_g_score == GScore(nodes, target)
    IN  IF Improves(tentative_g_score, neighbor_g_score)
        THEN LET f_score == tentative_g_score + heuristic[target]
             IN  Relax([nodes EXCEPT ![target] =
                            [known |-> TRUE, position |-> target,
                             movement_data |-> neighbor.movement.data,
                             came_from |-> <<current_node>>,
                             g_score |-> tentative_g_score, f_score |-> f_score]],
                       [open EXCEPT ![target] = f_score],
                       heuristic, current_node, edges, i + 1)
        ELSE Relax(nodes, open, heuristic, current_node, edges, i + 1)

\* astar.rs:68-91: the movements from the start to `current`; <<>> is
\* came_from: None
RECURSIVE reconstruct_path(_, _, _)
reconstruct_path(nodes, current, path) ==
    IF ~nodes[current].known THEN path
    ELSE IF nodes[current].came_from = <<>> THEN path
    ELSE reconstruct_path([nodes EXCEPT ![current] = NoNode], nodes[current].came_from[1],
                          <<[target |-> nodes[current].position,
                             data |-> nodes[current].movement_data]>> \o path)

AStarQueued == {p \in AStarPositions : as_open[p] # NotQueued}
\* PriorityQueue::pop gives an item of greatest priority, that is of least f
AStarPoppable == {p \in AStarQueued : \A q \in AStarQueued : as_open[p] <= as_open[q]}

\* astar.rs:32-35: the popped position satisfies success
AStarReturnPath ==
    /\ as_pc = "loop"
    /\ \E current_node \in AStarPoppable :
          /\ current_node \in as_success
          /\ as_open' = [as_open EXCEPT ![current_node] = NotQueued]
          /\ as_result' = [some |-> TRUE,
                           path |-> reconstruct_path(as_nodes, current_node, <<>>)]
    /\ as_pc' = "done"
    /\ UNCHANGED <<as_cost, as_heuristic, as_success, as_nodes>>
    /\ UNCHANGED asOther

\* astar.rs:32-63: one turn of the loop for a position that is not a success
AStarExpand ==
    /\ as_pc = "loop"
    /\ \E current_node \in AStarPoppable :
          /\ current_node \notin as_success
          /\ LET r == Relax(as_nodes, [as_open EXCEPT ![current_node] = NotQueued],
                            as_heuristic, current_node,
                            successors(as_cost, current_node), 1)
             IN  /\ as_nodes' = r.nodes
                 /\ as_open' = r.open
    /\ UNCHANGED <<as_cost, as_heuristic, as_success, as_pc, as_result>>
    /\ UNCHANGED asOther

\* astar.rs:32, 65: the open set is empty
AStarReturnNone ==
    /\ as_pc = "loop"
    /\ AStarQueued = {}
    /\ as_pc' = "done"
    /\ as_result' = [some |-> FALSE]
    /\ UNCHANGED <<as_cost, as_heuristic, as_success, as_open, as_nodes>>
    /\ UNCHANGED asOther

\* the least cost of a path of at most k edges from p to a success, WMax if none
RECURSIVE RemainingCost(_, _, _, _)
RemainingCost(cost, success, p, k) ==
    IF p \in success THEN 0
    ELSE IF k = 0 THEN WMax
    ELSE LET edges == successors(cost, p)
             via == {edges[i].cost + RemainingCost(cost, success, edges[i].movement.target,
                                                   k - 1) : i \in 1..Len(edges)}
             best == IF via = {} THEN WMax ELSE CHOOSE c \in via : \A d \in via : c <= d
         IN  IF best >= WMax THEN WMax ELSE best
TrueCost(cost, success, p) == RemainingCost(cost, success, p, Cardinality(AStarPositions) - 1)

\* astar.rs:18-30: the heuristics given are those that never exceed the true
\* remaining cost
AsInit ==
    /\ as_cost \in [1..Len(AStarEdges) -> AStarCosts]
    /\ as_success \in AStarSuccessSets
    /\ \E h \in [{2, 3, 4} -> AStarHeuristics] :
          as_heuristic = [p \in AStarPositions |-> IF p \in DOMAIN h THEN h[p] ELSE 0]
    /\ \A p \in AStarPositions : as_heuristic[p] <= TrueCost(as_cost, as_success, p)
    /\ as_open = [p \in AStarPositions |-> IF p = AStarStart THEN WDefault ELSE NotQueued]
    /\ as_nodes = [p \in AStarPositions |->
                      IF p = AStarStart
                      THEN [known |-> TRUE, position |-> AStarStart, movement_data |-> 0,
                            came_from |-> <<>>, g_score |-> WDefault, f_score |-> WMax]
                      ELSE NoNode]
    /\ as_pc = "loop"
    /\ as_result = [some |-> FALSE]

\* astar.rs:18-30 for any heuristic, one that exceeds the remaining cost
\* included
AsInitAny ==
    /\ as_cost \in [1..Len(AStarEdges) -> AStarCosts]
    /\ as_success \in AStarSuccessSets
    /\ \E h \in [{2, 3} -> AStarAnyHeuristics] :
          as_heuristic = [p \in AStarPositions |-> IF p \in DOMAIN h THEN h[p] ELSE 0]
    /\ as_open = [p \in AStarPositions |-> IF p = AStarStart THEN WDefault ELSE NotQueued]
    /\ as_nodes = [p \in AStarPositions |->
                      IF p = AStarStart
                      THEN [known |-> TRUE, position |-> AStarStart, movement_data |-> 0,
                            came_from |-> <<>>, g_score |-> WDefault, f_score |-> WMax]
                      ELSE NoNode]
    /\ as_pc = "loop"
    /\ as_result = [some |-> FALSE]

AsIdle ==
    /\ as_cost = [i \in 1..Len(AStarEdges) |-> 1]
    /\ as_success = {4}
    /\ as_heuristic = [p \in AStarPositions |-> 0]
    /\ as_open = [p \in AStarPositions |-> NotQueued]
    /\ as_nodes = [p \in AStarPositions |-> NoNode]
    /\ as_pc = "idle"
    /\ as_result = [some |-> FALSE]

AsNext ==
    \/ AStarReturnPath
    \/ AStarExpand
    \/ AStarReturnNone

(***************************************************************************)
(* tick_execute_path, path_found_listener                                  *)
(***************************************************************************)
\* game ticks that run before an Update in one frame
MaxTicksPerFrame == 2

\* execute.rs:65, 67: .skip(2).take(10)
SkipFirst == 2
SkipTake == 10

\* The paths a PathFoundEvent delivers: thirteen sprinted movements to the
\* blocks 1 .. 13, three walked movements that come back to a block, no movement.
PathMovement(target, sprint) == [target |-> target, data |-> [sprint |-> sprint]]
LongPath == [i \in 1..13 |-> PathMovement(i, TRUE)]
RevisitPath == <<PathMovement(1, FALSE), PathMovement(1, FALSE), PathMovement(2, FALSE)>>
FoundPaths == {LongPath, RevisitPath, <<>>}
\* where the entity may stand
PathBlocks == {0, 1, 2, 13}
\* the targets for which a forward simulation may succeed
WalkableTargets == {3, 12, 13}

\* mod.rs:278-287, forgetting on_ground
is_reached_in_the_air(goal_pos, current_pos, on_ground) == current_pos = goal_pos

\* mod.rs:278-287
is_reached(goal_pos, current_pos, on_ground) == current_pos = goal_pos /\ on_ground

\* execute.rs:60-69: the indices (from 0) of the skip-ahead candidates, in the
\* order they are tried
potential_targets(path) ==
    LET last == (IF Len(path) < SkipFirst + SkipTake THEN Len(path)
                 ELSE SkipFirst + SkipTake) - 1
        count == IF last >= SkipFirst THEN last - SkipFirst + 1 ELSE 0
    IN  [k \in 1..count |-> last - (k - 1)]

\* execute.rs:71-83: the index the path is split at, -1 if no candidate can be
\* walked to; `walkable` is what can_walk_to_position answers in this tick
RECURSIVE SkipIndex(_, _, _, _)
SkipIndex(path, candidates, walkable, k) ==
    IF k > Len(candidates) THEN -1
    ELSE IF path[candidates[k] + 1].target \in walkable THEN candidates[k]
    ELSE SkipIndex(path, candidates, walkable, k + 1)

\* VecDeque::split_off(at): the movements from index `at` on
split_off(path, at) == SubSeq(path, at + 1, Len(path))

\* execute.rs:55-135: the loop of tick_execute_path for one entity, from the
\* state `st` on; `ops` lists what it did to the path
RECURSIVE ExecuteLoop(_, _, _, _)
ExecuteLoop(st, position, on_ground, walkable) ==
    IF st.path = <<>> THEN st
    ELSE
    LET candidates == potential_targets(st.path)
        i == SkipIndex(st.path, candidates, walkable, 1)
        path1 == IF i >= 0 THEN split_off(st.path, i) ELSE st.path
        ops1 == IF i >= 0
                THEN Append(st.ops, [op |-> "skip", index |-> i, candidates |-> candidates,
                                     before |-> st.path, after |-> path1])
                ELSE st.ops
        movement == path1[1]
        sprint_events1 == IF movement.data.sprint
                          THEN Append(st.sprint_events, "Forward") ELSE st.sprint_events
        walk_events1 == IF movement.data.sprint
                        THEN st.walk_events ELSE Append(st.walk_events, "Forward")
    IN  IF is_reached(movement.target, position, on_ground)
        THEN LET switch == st.queued_path # <<>>
                 path2 == IF switch THEN st.queued_path[1] ELSE Tail(path1)
                 op == IF switch
                       THEN [op |-> "switch", front |-> movement, before |-> path1,
                             after |-> path2]
                       ELSE [op |-> "pop", front |-> movement, before |-> path1,
                             after |-> path2]
             IN  ExecuteLoop([path |-> path2,
                              queued_path |-> <<>>,
                              current_target_node |-> <<movement.target>>,
                              sprint_events |-> sprint_events1,
                              walk_events |-> IF path2 = <<>> THEN Append(walk_events1, "None")
                                              ELSE walk_events1,
                              ops |-> Append(ops1, op),
                              emptied |-> st.emptied \/ path2 = <<>>],
                             position, on_ground, walkable)
        ELSE [st EXCEPT !.path = path1, !.current_target_node = <<movement.target>>,
                        !.sprint_events = sprint_events1, !.walk_events = walk_events1,
                        !.ops = ops1]

NoPathTick == [ran |-> FALSE]
NoListen == [ran |-> FALSE]
NoUpdate == [ran |-> FALSE]

\* execute.rs:19-137: one run of the system, at the start of a game tick
tick_execute_path ==
    /\ px_pc = "frame"
    /\ px_ticks < MaxTicksPerFrame
    /\ \E walkable \in SUBSET WalkableTargets :
          LET st == ExecuteLoop([path |-> px_path, queued_path |-> px_queued_path,
                                 current_target_node |-> px_current_target_node,
                                 sprint_events |-> px_sprint_events,
                                 walk_events |-> px_walk_events,
                                 ops |-> <<>>, emptied |-> FALSE],
                                px_position, px_on_ground, walkable)
          IN  /\ px_path' = st.path
              /\ px_queued_path' = st.queued_path
              /\ px_current_target_node' = st.current_target_node
              /\ px_sprint_events' = st.sprint_events
              /\ px_walk_events' = st.walk_events
              /\ px_emptied' = (px_emptied \/ st.emptied)
              /\ px_tick' = [ran |-> TRUE, path |-> px_path, queued_path |-> px_queued_path,
                             position |-> px_position, on_ground |-> px_on_ground,
                             walkable |-> walkable, ops |-> st.ops]
    /\ px_pc' = "physics"
    /\ px_ticks' = px_ticks + 1
    /\ px_listen' = NoListen
    /\ px_update' = NoUpdate
    /\ UNCHANGED <<px_position, px_on_ground, px_entity>>
    /\ UNCHANGED pxOther

\* The rest of the game tick (tick_execute_path runs .before(PhysicsSet)): the
\* player's own tick systems, then physics moves the entity.
PxGameTick ==
    /\ px_pc = "physics"
    /\ px_entity' = SpGameTick(px_entity)
    /\ \E b \in PathBlocks : px_position' = b
    /\ \E g \in BOOLEAN : px_on_ground' = g
    /\ px_pc' = "frame"
    /\ px_tick' = NoPathTick
    /\ UNCHANGED <<px_ticks, px_path, px_queued_path, px_current_target_node,
                   px_sprint_events, px_walk_events, px_listen, px_emptied, px_update>>
    /\ UNCHANGED pxOther

\* The Update schedule of the frame, after its game ticks: the events the ticks
\* sent are handled.
PxUpdate ==
    /\ px_pc = "frame"
    /\ px_entity' = MoveEventsSet(px_entity, px_sprint_events, px_walk_events)
    /\ px_sprint_events' = <<>>
    /\ px_walk_events' = <<>>
    /\ px_ticks' = 0
    /\ px_update' = [ran |-> TRUE, emptied |-> px_emptied, found |-> px_entity,
                     sprint_events |-> px_sprint_events, walk_events |-> px_walk_events]
    /\ px_emptied' = FALSE
    /\ px_tick' = NoPathTick
    /\ px_listen' = NoListen
    /\ UNCHANGED <<px_pc, px_path, px_queued_path, px_current_target_node, px_position,
                   px_on_ground>>
    /\ UNCHANGED pxOther

\* mod.rs:260-266, the new path always taken at once
PathFoundReplaces(path, queued_path, new_path) ==
    [path |-> new_path, queued_path |-> queued_path]

\* mod.rs:260-266: Pathfinder::path and queued_path once `new_path` is found
PathFound(path, queued_path, new_path) ==
    IF path = <<>>
    THEN [path |-> new_path, queued_path |-> queued_path]
    ELSE [path |-> path, queued_path |-> <<new_path>>]

\* mod.rs:252-268, for one PathFoundEvent, in the Update of a frame: <<>> is
\* path: None
path_found_listener ==
    /\ px_pc = "frame"
    /\ px_ticks = 0
    /\ \E event \in {<<>>} \cup {<<path>> : path \in FoundPaths} :
          /\ IF event # <<>>
             THEN /\ px_path' = PathFound(px_path, px_queued_path, event[1]).path
                  /\ px_queued_path' = PathFound(px_path, px_queued_path, event[1]).queued_path
             ELSE UNCHANGED <<px_path, px_queued_path>>
          /\ px_listen' = [ran |-> TRUE, event |-> event, path |-> px_path,
                           queued_path |-> px_queued_path]
    /\ px_tick' = NoPathTick
    /\ px_update' = NoUpdate
    /\ UNCHANGED <<px_pc, px_ticks, px_current_target_node, px_position, px_on_ground,
                   px_entity, px_sprint_events, px_walk_events, px_emptied>>
    /\ UNCHANGED pxOther

\* mod.rs:77-84: Pathfinder::default() on a local player standing on the ground
PxInit ==
    /\ px_pc = "frame"
    /\ px_ticks = 0
    /\ px_path = <<>>
    /\ px_queued_path = <<>>
    /\ px_current_target_node = <<>>
    /\ px_position \in PathBlocks
    /\ px_on_ground = TRUE
    /\ px_entity = [SpPlayerDefault EXCEPT !.in_loaded_chunk = TRUE]
    /\ px_sprint_events = <<>>
    /\ px_walk_events = <<>>
    /\ px_tick = NoPathTick
    /\ px_listen = NoListen
    /\ px_emptied = FALSE
    /\ px_update = NoUpdate

PxIdle ==
    /\ px_pc = "idle"
    /\ px_ticks = 0
    /\ px_path = <<>>
    /\ px_queued_path = <<>>
    /\ px_current_target_node = <<>>
    /\ px_position = 0
    /\ px_on_ground = TRUE
    /\ px_entity = [SpPlayerDefault EXCEPT !.in_loaded_chunk = TRUE]
    /\ px_sprint_events = <<>>
    /\ px_walk_events = <<>>
    /\ px_tick = NoPathTick
    /\ px_listen = NoListen
    /\ px_emptied = FALSE
    /\ px_update = NoUpdate

PxNext ==
    \/ tick_execute_path
    \/ PxGameTick
    \/ PxUpdate
    \/ path_found_listener

(***************************************************************************)
(* can_walk_to_position                                                    *)
(***************************************************************************)
\* The simulated entity moves along x and y: x in blocks, y in half blocks (so
\* that 128 is y = 64.0 and 129 is y = 64.5).
CwXs == {0, 1, 2}
CwYs == {128, 129, 130}
CwTargets == {[x |-> 2, y |-> 64], [x |-> 2, y |-> 65], [x |-> 1, y |-> 64]}

\* BlockPos::from(Vec3): the floor of each coordinate
BlockPosFrom(pos) == [x |-> pos.x, y |-> pos.y \div 2]

\* execute.rs:154, looking at the height only
SimulationLeftLevel(current_pos, start_pos, horizontal_collision) ==
    current_pos.y # start_pos.y

\* execute.rs:154
SimulationWentWrong(current_pos, start_pos, horizontal_collision) ==
    current_pos.y # start_pos.y \/ horizontal_collision

\* execute.rs:151-159: one iteration: simulation.tick() lets physics move the
\* sprinting entity (never backwards along x), then the two checks
CwTick ==
    /\ cw_result = "running"
    /\ cw_ticks < SimulationTicks
    /\ \E x \in CwXs, y \in CwYs, horizontal_collision \in BOOLEAN :
          LET current_pos == [x |-> x, y |-> y]
          IN  /\ x >= cw_position.x
              /\ cw_position' = current_pos
              /\ cw_collision' = horizontal_collision
              /\ cw_history' = Append(cw_history, [position |-> current_pos,
                                                   horizontal_collision |-> horizontal_collision])
              /\ cw_result' =
                    IF SimulationWentWrong(current_pos, cw_start_pos, horizontal_collision)
                    THEN "false"
                    ELSE IF BlockPosFrom(current_pos) = cw_target THEN "true"
                    ELSE "running"
    /\ cw_ticks' = cw_ticks + 1
    /\ UNCHANGED <<cw_target, cw_start_pos>>
    /\ UNCHANGED cwOther

\* execute.rs:161: the twenty ticks are over
CwGiveUp ==
    /\ cw_result = "running"
    /\ cw_ticks = SimulationTicks
    /\ cw_result' = "false"
    /\ UNCHANGED <<cw_target, cw_start_pos, cw_position, cw_collision, cw_ticks, cw_history>>
    /\ UNCHANGED cwOther

\* execute.rs:144-148: the Simulation is built from the entity's snapshot
CwInit ==
    /\ cw_target \in CwTargets
    /\ \E x \in {0, 1}, y \in {128, 129} : cw_start_pos = [x |-> x, y |-> y]
    /\ cw_position = cw_start_pos
    /\ cw_collision \in BOOLEAN
    /\ cw_ticks = 0
    /\ cw_result = "running"
    /\ cw_history = <<>>

CwIdle ==
    /\ cw_target = [x |-> 2, y |-> 64]
    /\ cw_start_pos = [x |-> 0, y |-> 128]
    /\ cw_position = cw_start_pos
    /\ cw_collision = FALSE
    /\ cw_ticks = 0
    /\ cw_result = "idle"
    /\ cw_history = <<>>

CwNext ==
    \/ CwTick
    \/ CwGiveUp

(***************************************************************************)
(* The outbound packet channel between the scheduler and the writer task   *)
(***************************************************************************)
\* The number of packets the scheduler sends in the model.
MaxOutbound == 4

OutboundPackets == {"KeepAlive", "MovePlayerPos", "Chat"}

\* client.rs:139  mpsc::unbounded_channel(): a channel without capacity
unbounded_channel == <<>>

\* UnboundedSender::send / Sender::send: does the channel take one more packet
\* now (a bounded channel that is full makes the sender wait)
ChannelHasRoom(capacity, queue) ==
    IF capacity = <<>> THEN TRUE ELSE Len(queue) < capacity[1]

\* LocalPlayer::write_packet: packet_writer_sender.send(packet), from a system
\* of the schedule or from a Client method
WqSendPacket ==
    /\ Len(wq_queue) + Len(wq_written) < MaxOutbound
    /\ ChannelHasRoom(wq_capacity, wq_queue)
    /\ \E packet \in OutboundPackets : wq_queue' = Append(wq_queue, packet)
    /\ UNCHANGED <<wq_capacity, wq_written>>
    /\ UNCHANGED wqOther

\* write_task (client.rs:156-160): packet_writer_receiver.recv() gives the
\* oldest packet, which is written to the connection
WqWriteTask ==
    /\ wq_queue # <<>>
    /\ wq_written' = Append(wq_written, Head(wq_queue))
    /\ wq_queue' = Tail(wq_queue)
    /\ UNCHANGED wq_capacity
    /\ UNCHANGED wqOther

\* client.rs:139: start_client has just made the channel
WqInit ==
    /\ wq_capacity = unbounded_channel
    /\ wq_queue = <<>>
    /\ wq_written = <<>>

WqIdle ==
    /\ wq_capacity = <<0>>
    /\ wq_queue = <<>>
    /\ wq_written = <<>>

WqNext ==
    \/ WqSendPacket
    \/ WqWriteTask

(***************************************************************************)
(* azalea_ecs_runner and the Client methods that lock the ECS              *)
(***************************************************************************)
\* The number of schedule runs and of run_schedule messages in the model.
MaxRuns == 2
MaxSignals == 2
\* The systems of one schedule run, which holds the lock from first to last.
NumSystems == 2

\* Tasks that call a Client method, and the methods: each locks the ECS, sends
\* its event or writes its component, and unlocks.
Callers == {"a", "b"}
ClientMethods == {"walk", "sprint", "sneak", "set_jumping", "set_direction", "disconnect", "goto"}

\* parking_lot::Mutex::lock, not waiting for the holder
MutexAlwaysFree(holder) == TRUE

\* parking_lot::Mutex::lock returns when nobody holds the mutex
MutexFree(holder) == holder = "none"

RuRunsStarted == Cardinality({i \in 1..Len(ru_log) : ru_log[i].kind = "run_start"})

\* runner.rs:43, 49: the interval fires every 50 ms
RuTick ==
    /\ ~ru_tick
    /\ RuRunsStarted < MaxRuns
    /\ ru_tick' = TRUE
    /\ UNCHANGED <<ru_pc, ru_trigger, ru_system, ru_lock, ru_signals, ru_api, ru_log>>
    /\ UNCHANGED ruOther

\* RunScheduleSender::send(()), e.g. by the task that reads packets
RuSignal ==
    /\ ru_signals < MaxSignals
    /\ RuRunsStarted < MaxRuns
    /\ ru_signals' = ru_signals + 1
    /\ UNCHANGED <<ru_pc, ru_trigger, ru_system, ru_lock, ru_tick, ru_api, ru_log>>
    /\ UNCHANGED ruOther

\* runner.rs:47-50: select! takes a message or a tick
RuSelect ==
    /\ ru_pc = "select"
    /\ RuRunsStarted < MaxRuns
    /\ \/ /\ ru_signals > 0
          /\ ru_signals' = ru_signals - 1
          /\ ru_trigger' = "signal"
          /\ UNCHANGED ru_tick
       \/ /\ ru_tick
          /\ ru_tick' = FALSE
          /\ ru_trigger' = "tick"
          /\ UNCHANGED ru_signals
    /\ ru_pc' = "lock"
    /\ UNCHANGED <<ru_system, ru_lock, ru_api, ru_log>>
    /\ UNCHANGED ruOther

\* runner.rs:51: ecs.lock(), and schedule.run begins
RuLock ==
    /\ ru_pc = "lock"
    /\ MutexFree(ru_lock)
    /\ ru_lock' = "runner"
    /\ ru_pc' = "run"
    /\ ru_system' = 1
    /\ ru_log' = Append(ru_log, [kind |-> "run_start", by |-> ru_trigger])
    /\ UNCHANGED <<ru_trigger, ru_signals, ru_tick, ru_api>>
    /\ UNCHANGED ruOther

\* runner.rs:51: schedule.run runs one system
RuSystem ==
    /\ ru_pc = "run"
    /\ ru_system <= NumSystems
    /\ ru_system' = ru_system + 1
    /\ UNCHANGED <<ru_pc, ru_trigger, ru_lock, ru_signals, ru_tick, ru_api, ru_log>>
    /\ UNCHANGED ruOther

\* runner.rs:51: schedule.run returns and the guard is dropped at the end of
\* the statement
RuUnlock ==
    /\ ru_pc = "run"
    /\ ru_system > NumSystems
    /\ ru_lock' = IF ru_lock = "runner" THEN "none" ELSE ru_lock
    /\ ru_pc' = "select"
    /\ ru_log' = Append(ru_log, [kind |-> "run_end", by |-> ru_trigger])
    /\ UNCHANGED <<ru_trigger, ru_system, ru_signals, ru_tick, ru_api>>
    /\ UNCHANGED ruOther

\* movement.rs:486, 509, 527; azalea client.rs:64; pathfinder/mod.rs:99:
\* self.ecs.lock()
ApiLock ==
    \E c \in Callers, method \in ClientMethods :
        /\ ru_api[c] = "idle"
        /\ MutexFree(ru_lock)
        /\ ru_lock' = c
        /\ ru_api' = [ru_api EXCEPT ![c] = method]
        /\ UNCHANGED <<ru_pc, ru_trigger, ru_system, ru_signals, ru_tick, ru_log>>
        /\ UNCHANGED ruOther

\* movement.rs:487-490, 510-513, 528-529: send_event or the component write,
\* and the guard dropped when the method returns
ApiEffect ==
    \E c \in Callers :
        /\ ru_api[c] \in ClientMethods
        /\ ru_log' = Append(ru_log, [kind |-> "api", by |-> ru_api[c]])
        /\ ru_api' = [ru_api EXCEPT ![c] = "done"]
        /\ ru_lock' = IF ru_lock = c THEN "none" ELSE ru_lock
        /\ UNCHANGED <<ru_pc, ru_trigger, ru_system, ru_signals, ru_tick>>
        /\ UNCHANGED ruOther

RuInit ==
    /\ ru_pc = "select"
    /\ ru_trigger = "tick"
    /\ ru_system = 1
    /\ ru_lock = "none"
    /\ ru_signals = 0
    /\ ru_tick = FALSE
    /\ ru_api = [c \in Callers |-> "idle"]
    /\ ru_log = <<>>

RuIdle ==
    /\ ru_pc = "idle"
    /\ ru_trigger = "tick"
    /\ ru_system = 1
    /\ ru_lock = "none"
    /\ ru_signals = 0
    /\ ru_tick = FALSE
    /\ ru_api = [c \in Callers |-> "idle"]
    /\ ru_log = <<>>

RuNext ==
    \/ RuTick
    \/ RuSignal
    \/ RuSelect
    \/ RuLock
    \/ RuSystem
    \/ RuUnlock
    \/ ApiLock
    \/ ApiEffect

(***************************************************************************)
(* NbtCompound                                                             *)
(***************************************************************************)
\* tag.rs:340
NbtSortThreshold == 32
\* The number of insert / insert_unsorted calls the model makes on the compound.
MaxNbtCalls == 3

\* Names are numbered in their string order. A compound starts with
\* StartLen entries whose names 10, 20, ... were inserted in increasing
\* order; the calls of the model insert names that lie before, between and
\* after them.
NbtStartLens == {0, 1, 30, 31, 32}
NbtNames == {5, 15, 1000}
NbtStart(n) == [i \in 1..n |-> [name |-> 10 * i, value |-> i]]

\* tag.rs:336-341
is_worth_sorting(inner) == Len(inner) >= NbtSortThreshold

\* tag.rs:323-329
sort(inner) ==
    IF ~is_worth_sorting(inner) THEN inner
    ELSE SortSeq(inner, LAMBDA a, b : a.name < b.name)

NbtNamesOf(inner) == {inner[i].name : i \in 1..Len(inner)}

\* tag.rs:317-321  insert(name, pointer), for a name the compound does not hold
NbtInsert ==
    /\ nbt_calls < MaxNbtCalls
    /\ \E name \in NbtNames \ NbtNamesOf(nbt_inner) :
        LET entry == [name |-> name, value |-> Len(nbt_inserted) + 1]
        IN  /\ nbt_inner' = sort(Append(nbt_inner, entry))
            /\ nbt_inserted' = Append(nbt_inserted, entry)
    /\ nbt_calls' = nbt_calls + 1
    /\ UNCHANGED nbtOther

\* tag.rs:306-309  insert_unsorted(name, pointer)
NbtInsertUnsorted ==
    /\ nbt_calls < MaxNbtCalls
    /\ \E name \in NbtNames \ NbtNamesOf(nbt_inner) :
        LET entry == [name |-> name, value |-> Len(nbt_inserted) + 1]
        IN  /\ nbt_inner' = Append(nbt_inner, entry)
            /\ nbt_inserted' = Append(nbt_inserted, entry)
    /\ nbt_calls' = nbt_calls + 1
    /\ UNCHANGED nbtOther

NbtInit ==
    /\ \E n \in NbtStartLens :
        /\ nbt_inner = NbtStart(n)
        /\ nbt_inserted = NbtStart(n)
    /\ nbt_calls = 0

NbtIdle ==
    /\ nbt_inner = <<>>
    /\ nbt_inserted = <<>>
    /\ nbt_calls = -1

NbtNext ==
    \/ NbtInsert
    \/ NbtInsertUnsorted

(***************************************************************************)
(* BitSetDiscreteVoxelShape                                                *)
(***************************************************************************)
\* The number of cells the model fills in one shape.
MaxFills == 3
VoxelSizes == {1, 2, 3}
\* The sizes of the shapes made by with_filled_bounds and join, and the number
\* of cells filled in each shape given to join.
BoxSizes == {1, 2}
MaxJoinCells == 2
\* discrete_voxel_shape.rs:225-232  i32::MAX and i32::MIN
IntMax == 2147483647
IntMin == -IntMax - 1

VxMin(a, b) == IF a < b THEN a ELSE b
VxMax(a, b) == IF a > b THEN a ELSE b

\* discrete_voxel_shape.rs:72-86
VoxelShapeNew(x_min, y_min, z_min) ==
    [x_size |-> x_min, y_size |-> y_min, z_size |-> z_min,
     storage |-> BitSetNew(x_min * y_min * z_min),
     x_min |-> z_min, y_min |-> z_min, z_min |-> z_min,
     x_max |-> 0, y_max |-> 0, z_max |-> 0]

\* discrete_voxel_shape.rs:175-177
get_index(shape, x, y, z) == (x * shape.y_size + y) * shape.z_size + z

\* discrete_voxel_shape.rs:153-163, leaving the bounds as they are
fill_update_bounds_never(shape, x, y, z, update) ==
    [shape EXCEPT !.storage = BitSetSet(@, get_index(shape, x, y, z))]

\* discrete_voxel_shape.rs:153-163
fill_update_bounds(shape, x, y, z, update) ==
    IF update
    THEN [shape EXCEPT !.storage = BitSetSet(@, get_index(shape, x, y, z)),
                       !.x_min = VxMin(@, x), !.y_min = VxMin(@, y), !.z_min = VxMin(@, z),
                       !.x_max = VxMax(@, x + 1), !.y_max = VxMax(@, y + 1),
                       !.z_max = VxMax(@, z + 1)]
    ELSE [shape EXCEPT !.storage = BitSetSet(@, get_index(shape, x, y, z))]

\* discrete_voxel_shape.rs:168-170
fill(shape, x, y, z) == fill_update_bounds(shape, x, y, z, TRUE)

\* discrete_voxel_shape.rs:330-332
is_full(shape, x, y, z) == BitSetIndex(shape.storage, get_index(shape, x, y, z))

\* discrete_voxel_shape.rs:306-324
first_full_x(shape) == shape.x_min
first_full_y(shape) == shape.y_min
first_full_z(shape) == shape.z_min
last_full_x(shape) == shape.x_max
last_full_y(shape) == shape.y_max
last_full_z(shape) == shape.z_max

\* discrete_voxel_shape.rs:31-34
is_full_wide(shape, x, y, z) ==
    (x < shape.x_size /\ y < shape.y_size /\ z < shape.z_size) /\ is_full(shape, x, y, z)

\* i32 -> u32 try_into().unwrap() succeeds
VxUnwraps(v) == v >= 0

\* discrete_voxel_shape.rs:18-29 over 306-324: "panic" when a bound that is
\* read does not fit a u32
is_empty(shape) ==
    IF ~VxUnwraps(shape.x_min) \/ ~VxUnwraps(shape.x_max) THEN "panic"
    ELSE IF first_full_x(shape) >= last_full_x(shape) THEN "true"
    ELSE IF ~VxUnwraps(shape.y_min) \/ ~VxUnwraps(shape.y_max) THEN "panic"
    ELSE IF first_full_y(shape) >= last_full_y(shape) THEN "true"
    ELSE IF first_full_x(shape) >= last_full_x(shape) THEN "true"
    ELSE "false"

\* fill_update_bounds for every cell of a set (the order does not matter)
RECURSIVE VxFillAll(_, _, _)
VxFillAll(shape, cells, update) ==
    IF cells = {} THEN shape
    ELSE LET c == CHOOSE c \in cells : TRUE
         IN  VxFillAll(fill_update_bounds(shape, c[1], c[2], c[3], update),
                       cells \ {c}, update)

\* discrete_voxel_shape.rs:107-140
with_filled_bounds(x_size, y_size, z_size, x_min, y_min, z_min, x_max, y_max, z_max) ==
    LET shape == [VoxelShapeNew(x_size, y_size, z_size) EXCEPT
                     !.x_min = x_min, !.y_min = y_min, !.z_min = z_min,
                     !.x_max = x_max, !.y_max = y_max, !.z_max = z_max]
    IN  VxFillAll(shape,
                  (x_min..(x_max - 1)) \X (y_min..(y_max - 1)) \X (z_min..(z_max - 1)),
                  FALSE)

\* An IndexMerger as the sequence of pairs <<index in the first shape, index
\* in the second>> that for_merged_indexes visits, the k-th with merged index
\* k - 1; size() is one more than their number. The merger of two equal grids:
IdenticalMerger(size) == [k \in 1..size |-> <<k - 1, k - 1>>]

\* the boolean operators a join is asked for: AND, OR, ONLY_FIRST
BooleanOps ==
    {[p \in BOOLEAN \X BOOLEAN |-> p[1] /\ p[2]],
     [p \in BOOLEAN \X BOOLEAN |-> p[1] \/ p[2]],
     [p \in BOOLEAN \X BOOLEAN |-> p[1] /\ ~p[2]]}

VxSetMin(set, none) == IF set = {} THEN none ELSE CHOOSE v \in set : \A w \in set : v <= w
VxSetMax(set, none) == IF set = {} THEN none ELSE CHOOSE v \in set : \A w \in set : v >= w

\* discrete_voxel_shape.rs:219-298
join(var0, var1, var2, var3, var4, var5) ==
    LET var6 == VoxelShapeNew(Len(var2), Len(var3), Len(var4))
        merged == {c \in (1..Len(var2)) \X (1..Len(var3)) \X (1..Len(var4)) :
                      var5[<<is_full_wide(var0, var2[c[1]][1], var3[c[2]][1], var4[c[3]][1]),
                             is_full_wide(var1, var2[c[1]][2], var3[c[2]][2],
                                          var4[c[3]][2])>>]}
        cells == {<<c[1] - 1, c[2] - 1, c[3] - 1>> : c \in merged}
        var7 == <<VxSetMin({c[1] : c \in cells}, IntMax),
                  VxSetMin({c[2] : c \in cells}, IntMax),
                  VxSetMin({c[3] : c \in cells}, IntMax),
                  VxSetMax({c[1] : c \in cells}, IntMin),
                  VxSetMax({c[2] : c \in cells}, IntMin),
                  VxSetMax({c[3] : c \in cells}, IntMin)>>
    IN  [VxFillAll(var6, cells, FALSE) EXCEPT
            !.x_min = var7[1], !.y_min = var7[2], !.z_min = var7[3],
            !.x_max = var7[4] + 1, !.y_max = var7[5] + 1, !.z_max = var7[6] + 1]

\* the cells of the two shapes a join is given
JoinInputs(xs, ys, zs) ==
    {cells \in SUBSET ((0..(xs - 1)) \X (0..(ys - 1)) \X (0..(zs - 1))) :
        Cardinality(cells) <= MaxJoinCells}

VxFill ==
    /\ Cardinality(vx_fills) < MaxFills
    /\ \E x \in 0..(vx_shape.x_size - 1), y \in 0..(vx_shape.y_size - 1),
          z \in 0..(vx_shape.z_size - 1) :
        /\ vx_shape' = fill(vx_shape, x, y, z)
        /\ vx_fills' = vx_fills \cup {<<x, y, z>>}
    /\ UNCHANGED vx_made
    /\ UNCHANGED vxOther

\* the cells set in the storage of a shape
VxCells(shape) ==
    {c \in (0..(shape.x_size - 1)) \X (0..(shape.y_size - 1)) \X (0..(shape.z_size - 1)) :
        is_full(shape, c[1], c[2], c[3])}

\* A shape as one of its three constructors leaves it.
VxInit ==
    /\ \/ /\ \E xs \in VoxelSizes, ys \in VoxelSizes, zs \in VoxelSizes :
                vx_shape = VoxelShapeNew(xs, ys, zs)
          /\ vx_made = "new"
       \/ /\ \E xs \in BoxSizes, ys \in BoxSizes, zs \in BoxSizes :
             \E x_min \in 0..xs, x_max \in 0..xs, y_min \in 0..ys, y_max \in 0..ys,
                z_min \in 0..zs, z_max \in 0..zs :
                vx_shape = with_filled_bounds(xs, ys, zs, x_min, y_min, z_min,
                                              x_max, y_max, z_max)
          /\ vx_made = "with_filled_bounds"
       \/ /\ \E xs \in BoxSizes, zs \in BoxSizes, var5 \in BooleanOps :
             \E cells0 \in JoinInputs(xs, 1, zs), cells1 \in JoinInputs(xs, 1, zs) :
                vx_shape = join(VxFillAll(VoxelShapeNew(xs, 1, zs), cells0, TRUE),
                                VxFillAll(VoxelShapeNew(xs, 1, zs), cells1, TRUE),
                                IdenticalMerger(xs), IdenticalMerger(1), IdenticalMerger(zs),
                                var5)
          /\ vx_made = "join"
    /\ vx_fills = VxCells(vx_shape)

VxIdle ==
    /\ vx_shape = VoxelShapeNew(0, 0, 0)
    /\ vx_fills = {}
    /\ vx_made = "new"

VxNext ==
    \/ VxFill

(***************************************************************************)
(* Dimension: set_entity_pos and move_entity_with_delta                    *)
(***************************************************************************)
\* The number of calls the model makes on one Dimension.
MaxWorldCalls == 3

\* Positions along one axis, in blocks; a chunk is 16 blocks wide.
ChunkWidth == 16
EntityIds == {1, 2}
EntityPositions == {0, 15, 16, 40}
PositionDeltas == {-16, 1, 24}
WorldChunks == 0..4

\* ChunkPos::from(pos) for positions that are not negative
ChunkPosFrom(pos) == pos \div ChunkWidth

\* Vec3::with_delta
with_delta(pos, delta) == pos + delta

\* EntityStorage::update_entity_chunk
update_entity_chunk(by_chunk, entity_id, old_chunk, new_chunk) ==
    [c \in DOMAIN by_chunk |->
        IF c = new_chunk THEN by_chunk[c] \cup {entity_id}
        ELSE IF c = old_chunk THEN by_chunk[c] \ {entity_id}
        ELSE by_chunk[c]]

\* lib.rs:76-84, without the unsafe_move
MoveEntityIndexOnly(entities, by_chunk, entity_id, new_pos) ==
    LET old_chunk == ChunkPosFrom(entities[entity_id])
        new_chunk == ChunkPosFrom(new_pos)
    IN  [result |-> "Ok",
         entities |-> entities,
         by_chunk |-> IF old_chunk # new_chunk
                      THEN update_entity_chunk(by_chunk, entity_id, old_chunk, new_chunk)
                      ELSE by_chunk]

\* lib.rs:76-84 and 97-106: the entity is moved and the index follows it
MoveEntity(entities, by_chunk, entity_id, new_pos) ==
    LET old_chunk == ChunkPosFrom(entities[entity_id])
        new_chunk == ChunkPosFrom(new_pos)
    IN  [result |-> "Ok",
         entities |-> [entities EXCEPT ![entity_id] = new_pos],
         by_chunk |-> IF old_chunk # new_chunk
                      THEN update_entity_chunk(by_chunk, entity_id, old_chunk, new_chunk)
                      ELSE by_chunk]

\* lib.rs:67-85
set_entity_pos(entities, by_chunk, entity_id, new_pos) ==
    IF entity_id \notin DOMAIN entities
    THEN [result |-> "Err(EntityDoesNotExist)", entities |-> entities, by_chunk |-> by_chunk]
    ELSE MoveEntity(entities, by_chunk, entity_id, new_pos)

\* lib.rs:87-107
move_entity_with_delta(entities, by_chunk, entity_id, delta) ==
    IF entity_id \notin DOMAIN entities
    THEN [result |-> "Err(EntityDoesNotExist)", entities |-> entities, by_chunk |-> by_chunk]
    ELSE MoveEntity(entities, by_chunk, entity_id, with_delta(entities[entity_id], delta))

\* lib.rs:109-111  add_entity, for an id the storage does not hold
WdAddEntity ==
    /\ wd_calls < MaxWorldCalls
    /\ \E id \in EntityIds \ DOMAIN wd_entities, pos \in EntityPositions :
        /\ wd_entities' = [i \in DOMAIN wd_entities \cup {id} |->
                              IF i = id THEN pos ELSE wd_entities[i]]
        /\ wd_by_chunk' = [wd_by_chunk EXCEPT ![ChunkPosFrom(pos)] = @ \cup {id}]
        /\ wd_last' = [call |-> "add_entity", entity_id |-> id, new_pos |-> pos,
                       result |-> "Ok", entities |-> wd_entities, by_chunk |-> wd_by_chunk]
    /\ wd_calls' = wd_calls + 1
    /\ UNCHANGED wdOther

WdSetEntityPos ==
    /\ wd_calls < MaxWorldCalls
    /\ \E id \in EntityIds, pos \in EntityPositions :
        LET r == set_entity_pos(wd_entities, wd_by_chunk, id, pos)
        IN  /\ wd_entities' = r.entities
            /\ wd_by_chunk' = r.by_chunk
            /\ wd_last' = [call |-> "set_entity_pos", entity_id |-> id, new_pos |-> pos,
                           result |-> r.result, entities |-> wd_entities,
                           by_chunk |-> wd_by_chunk]
    /\ wd_calls' = wd_calls + 1
    /\ UNCHANGED wdOther

WdMoveEntityWithDelta ==
    /\ wd_calls < MaxWorldCalls
    /\ \E id \in EntityIds, delta \in PositionDeltas :
        /\ id \in DOMAIN wd_entities =>
              ChunkPosFrom(with_delta(wd_entities[id], delta)) \in WorldChunks
        /\ LET r == move_entity_with_delta(wd_entities, wd_by_chunk, id, delta)
           IN  /\ wd_entities' = r.entities
               /\ wd_by_chunk' = r.by_chunk
               /\ wd_last' = [call |-> "move_entity_with_delta", entity_id |-> id,
                              new_pos |-> IF id \in DOMAIN wd_entities
                                          THEN with_delta(wd_entities[id], delta) ELSE 0,
                              result |-> r.result, entities |-> wd_entities,
                              by_chunk |-> wd_by_chunk]
    /\ wd_calls' = wd_calls + 1
    /\ UNCHANGED wdOther

NoWorldCall == [call |-> "none"]

\* lib.rs:40-45  Dimension::new
WdInit ==
    /\ wd_entities = <<>>
    /\ wd_by_chunk = [c \in WorldChunks |-> {}]
    /\ wd_last = NoWorldCall
    /\ wd_calls = 0

WdIdle ==
    /\ wd_entities = <<>>
    /\ wd_by_chunk = [c \in WorldChunks |-> {}]
    /\ wd_last = NoWorldCall
    /\ wd_calls = -1

WdNext ==
    \/ WdAddEntity
    \/ WdSetEntityPos
    \/ WdMoveEntityWithDelta

(***************************************************************************)
(* is_block_passable, is_block_solid, is_standable                         *)
(***************************************************************************)
\* One column x = 0 of a loaded chunk, with blocks at the heights WorldYs;
\* x = 16 lies in a chunk that is not loaded. Air has the empty shape, stone
\* the full block shape, a slab another shape.
WorldYs == 0..3
QueryYs == -1..4
QueryXs == {0, 16}
Blocks == {"air", "stone", "slab"}

\* collision::empty_shape() and collision::block_shape()
empty_shape == "empty"
block_shape == "block"

\* BlockWithShape::shape
shape(block) ==
    CASE block = "air" -> empty_shape
      [] block = "stone" -> block_shape
      [] OTHER -> "half"

\* world.chunks.get_block_state(pos): <<>> is None. A world is a function from
\* the positions of its loaded chunks, within its height, to block states.
get_block_state(world, pos) ==
    IF pos \in DOMAIN world THEN <<world[pos]>> ELSE <<>>

StColumn == {[x |-> 0, y |-> y] : y \in WorldYs}

up(pos, n) == [pos EXCEPT !.y = @ + n]
down(pos, n) == [pos EXCEPT !.y = @ - n]

\* moves.rs:8-14
is_block_passable(pos, world) ==
    IF get_block_state(world, pos) # <<>>
    THEN shape(get_block_state(world, pos)[1]) = empty_shape
    ELSE FALSE

\* moves.rs:17-23, taking every shape but the empty one for solid
is_block_solid_unless_empty(pos, world) ==
    IF get_block_state(world, pos) # <<>>
    THEN shape(get_block_state(world, pos)[1]) # empty_shape
    ELSE FALSE

\* moves.rs:17-23
is_block_solid(pos, world) ==
    IF get_block_state(world, pos) # <<>>
    THEN shape(get_block_state(world, pos)[1]) = block_shape
    ELSE FALSE

\* moves.rs:26-28
is_passable(pos, world) ==
    is_block_passable(pos, world) /\ is_block_passable(up(pos, 1), world)

\* moves.rs:33-35
is_standable(pos, world) ==
    is_block_solid(down(pos, 1), world) /\ is_passable(pos, world)

NoAnswer == [asked |-> FALSE]

\* the three tests are called for one position
StAsk ==
    /\ \E x \in QueryXs, y \in QueryYs :
        LET pos == [x |-> x, y |-> y]
        IN  /\ st_pos' = pos
            /\ st_answer' = [asked |-> TRUE,
                             passable |-> is_block_passable(pos, st_world),
                             solid |-> is_block_solid(pos, st_world),
                             standable |-> is_standable(pos, st_world)]
    /\ UNCHANGED st_world
    /\ UNCHANGED stOther

\* chunks.set_block_state(pos, state), as the tests of moves.rs:250-335 build
\* their worlds
StSetBlockState ==
    /\ \E y \in WorldYs, block \in Blocks :
        /\ st_world[[x |-> 0, y |-> y]] # block
        /\ st_world' = [st_world EXCEPT ![[x |-> 0, y |-> y]] = block]
    /\ st_answer' = NoAnswer
    /\ UNCHANGED st_pos
    /\ UNCHANGED stOther

\* Chunk::default(): a loaded chunk full of air
StInit ==
    /\ st_world = [pos \in StColumn |-> "air"]
    /\ st_pos = [x |-> 0, y |-> 0]
    /\ st_answer = NoAnswer

StIdle ==
    /\ st_world = [pos \in StColumn |-> "air"]
    /\ st_pos = [x |-> 0, y |-> -1]
    /\ st_answer = NoAnswer

StNext ==
    \/ StAsk
    \/ StSetBlockState

(***************************************************************************)
(* The pathfinder's moves and the search over them                         *)
(***************************************************************************)
\* The number of blocks the model changes in one world.
MaxBlockSets == 2

\* The loaded part of the world: 4 x 4 x 2 blocks from min_y up.
MoveXs == 0..3
MoveYs == 0..3
MoveZs == 0..1
min_y == 0

\* Costs and heuristics are f32 (moves.rs:52-56, goals.rs:9). An f32 of the
\* search is held as the whole number of its 2^-23 parts: 1.0 is 8388608. The
\* values that occur are 0 or at least 0.5, sums of such, and below 256, so
\* each is a whole number of parts and fits the checker's integers.
F32One == 8388608
\* 2^24: an f32 keeps 24 significant bits
F32Significand == 16777216
\* the f32 nearest to 1.4: 11744051 * 2^-23
F32OnePointFour == 11744051
\* f32::MAX, above every sum of the search; only compared, never added
F32Max == IntMax
JUMP_COST == 4194304
WALK_ONE_BLOCK_COST == 8388608
FALL_ONE_BLOCK_COST == 4194304

\* the spacing of the f32 values around s parts: the least power of two q
\* with s < 2^24 * q
RECURSIVE F32Spacing(_, _)
F32Spacing(s, q) == IF s \div q < F32Significand THEN q ELSE F32Spacing(s, 2 * q)

\* the f32 nearest to s parts, the one with the even significand on a tie
F32Round(s) ==
    LET q == F32Spacing(s, 1)
        low == (s \div q) * q
        rest == s - low
    IN  IF 2 * rest < q THEN low
        ELSE IF 2 * rest > q THEN low + q
        ELSE IF (s \div q) % 2 = 0 THEN low ELSE low + q

\* a + b of two f32
F32Add(a, b) == F32Round(a + b)
\* a * b of two f32, b a whole number (given as that number)
F32Times(a, b) == F32Round(a * b)
\* n as f32, n a small whole number
F32From(n) == n * F32One
\* moves.rs:46 returns u32::MAX, more than the integers of the checker hold;
\* i32::MAX passes and fails the same tests on a fall distance
U32Max == IntMax

BlockPosNew(x, y, z) == [x |-> x, y |-> y, z |-> z]
BlockPosAdd(a, b) == [x |-> a.x + b.x, y |-> a.y + b.y, z |-> a.z + b.z]
MovePositions == {BlockPosNew(x, y, z) : x \in MoveXs, y \in MoveYs, z \in MoveZs}

\* CardinalDirection: x(), z() and right()
CardinalDirections == <<"North", "East", "South", "West">>
DirX(dir) == CASE dir = "East" -> 1 [] dir = "West" -> -1 [] OTHER -> 0
DirZ(dir) == CASE dir = "South" -> 1 [] dir = "North" -> -1 [] OTHER -> 0
right(dir) ==
    CASE dir = "North" -> "East" [] dir = "East" -> "South"
      [] dir = "South" -> "West" [] OTHER -> "North"

\* moves.rs:38-50: the loop, with `distance` counted and `current_pos` reached
RECURSIVE FallDistanceLoop(_, _, _)
FallDistanceLoop(distance, current_pos, world) ==
    IF is_block_passable(current_pos, world)
    THEN IF down(current_pos, 1).y < min_y
         THEN U32Max
         ELSE FallDistanceLoop(distance + 1, down(current_pos, 1), world)
    ELSE distance

\* moves.rs:38-50
fall_distance(pos, world) == FallDistanceLoop(0, down(pos, 1), world)

\* Some(Edge { movement: Movement { target, data: MoveData { jump } }, cost })
SomeEdge(target, jump, cost) ==
    <<[movement |-> [target |-> target, data |-> [jump |-> jump]], cost |-> cost]>>

\* moves.rs:67-85
ForwardMove(dir, world, node) ==
    LET offset == BlockPosNew(DirX(dir), 0, DirZ(dir))
    IN  IF ~is_standable(BlockPosAdd(node, offset), world) THEN <<>>
        ELSE SomeEdge(BlockPosAdd(node, offset), FALSE, WALK_ONE_BLOCK_COST)

\* moves.rs:88-106
AscendMove(dir, world, node) ==
    LET offset == BlockPosNew(DirX(dir), 1, DirZ(dir))
    IN  IF \/ ~is_block_passable(up(node, 2), world)
           \/ ~is_standable(BlockPosAdd(node, offset), world)
        THEN <<>>
        ELSE SomeEdge(BlockPosAdd(node, offset), TRUE,
                      F32Add(WALK_ONE_BLOCK_COST, JUMP_COST))

\* moves.rs:108-136
DescendMove(dir, world, node) ==
    LET new_horizontal_position == BlockPosAdd(node, BlockPosNew(DirX(dir), 0, DirZ(dir)))
        distance == fall_distance(new_horizontal_position, world)
    IN  IF distance = 0 THEN <<>>
        ELSE IF distance > 3 THEN <<>>
        ELSE IF ~is_passable(new_horizontal_position, world) THEN <<>>
        ELSE SomeEdge(down(new_horizontal_position, distance), FALSE,
                      F32Add(WALK_ONE_BLOCK_COST, F32Times(FALL_ONE_BLOCK_COST, distance)))

\* moves.rs:138-166
DiagonalMove(dir, world, node) ==
    LET offset == BlockPosNew(DirX(dir) + DirX(right(dir)), 0, DirZ(dir) + DirZ(right(dir)))
    IN  IF /\ ~is_passable(BlockPosAdd(node, BlockPosNew(DirX(dir), 0, DirZ(dir))), world)
           /\ ~is_passable(BlockPosNew(node.x + DirX(right(dir)), node.y,
                                       node.z + DirZ(right(dir))), world)
        THEN <<>>
        ELSE IF ~is_standable(BlockPosAdd(node, offset), world) THEN <<>>
        ELSE SomeEdge(BlockPosAdd(node, offset), FALSE,
                      F32Times(F32OnePointFour, WALK_ONE_BLOCK_COST \div F32One))

\* moves.rs:169-196
ParkourForwardMove(dir, world, node) ==
    LET offset == BlockPosNew(DirX(dir) * 2, 0, DirZ(dir) * 2)
    IN  IF ~is_passable(BlockPosAdd(node, BlockPosNew(DirX(dir), 0, DirZ(dir))), world)
        THEN <<>>
        ELSE IF is_block_solid(BlockPosAdd(node, BlockPosNew(DirX(dir), -1, DirZ(dir))), world)
        THEN <<>>
        ELSE IF ~is_standable(BlockPosAdd(node, offset), world) THEN <<>>
        ELSE SomeEdge(BlockPosAdd(node, offset), TRUE,
                      F32Add(F32Add(F32Add(JUMP_COST, WALK_ONE_BLOCK_COST),
                                    WALK_ONE_BLOCK_COST), FALL_ONE_BLOCK_COST))

\* moves.rs:198-241
ParkourForward2Move(dir, world, node) ==
    LET offset == BlockPosNew(DirX(dir) * 3, 0, DirZ(dir) * 3)
    IN  IF ~is_passable(BlockPosAdd(node, BlockPosNew(DirX(dir), 0, DirZ(dir))), world)
        THEN <<>>
        ELSE IF ~is_passable(BlockPosAdd(node, BlockPosNew(DirX(dir) * 2, 0, DirZ(dir) * 2)),
                             world)
        THEN <<>>
        ELSE IF is_block_solid(BlockPosAdd(node, BlockPosNew(DirX(dir), -1, DirZ(dir))), world)
        THEN <<>>
        ELSE IF is_block_solid(BlockPosAdd(node, BlockPosNew(DirX(dir) * 2, -1,
                                                            DirZ(dir) * 2)), world)
        THEN <<>>
        ELSE IF ~is_standable(BlockPosAdd(node, offset), world) THEN <<>>
        ELSE SomeEdge(BlockPosAdd(node, offset), TRUE,
                      F32Add(F32Add(F32Add(F32Add(JUMP_COST, WALK_ONE_BLOCK_COST),
                                           WALK_ONE_BLOCK_COST), WALK_ONE_BLOCK_COST),
                             FALL_ONE_BLOCK_COST))

MoveKinds == <<"Forward", "Ascend", "Descend", "Diagonal", "ParkourForward",
               "ParkourForward2">>

\* Move::get of the move `kind` in the direction `dir`
MoveGet(kind, dir, world, node) ==
    CASE kind = "Forward" -> ForwardMove(dir, world, node)
      [] kind = "Ascend" -> AscendMove(dir, world, node)
      [] kind = "Descend" -> DescendMove(dir, world, node)
      [] kind = "Diagonal" -> DiagonalMove(dir, world, node)
      [] kind = "ParkourForward" -> ParkourForwardMove(dir, world, node)
      [] OTHER -> ParkourForward2Move(dir, world, node)

\* mod.rs:161-191: the 24 moves, kind by kind and in each kind North, East,
\* South, West
possible_moves ==
    [i \in 1..(Len(MoveKinds) * Len(CardinalDirections)) |->
        [kind |-> MoveKinds[((i - 1) \div Len(CardinalDirections)) + 1],
         dir |-> CardinalDirections[((i - 1) % Len(CardinalDirections)) + 1]]]

\* mod.rs:193-204: the edges of the moves that return one, in the order of
\* possible_moves; each keeps the move it came from
RECURSIVE MoveSuccessorsFrom(_, _, _)
MoveSuccessorsFrom(world, node, i) ==
    IF i > Len(possible_moves) THEN <<>>
    ELSE LET edge == MoveGet(possible_moves[i].kind, possible_moves[i].dir, world, node)
         IN  (IF edge = <<>> THEN <<>>
              ELSE <<edge[1] @@ [kind |-> possible_moves[i].kind]>>)
                \o MoveSuccessorsFrom(world, node, i + 1)
move_successors(world, node) == MoveSuccessorsFrom(world, node, 1)

\* goals.rs:8-13; squares and sums of small whole numbers are exact in f32
BlockPosGoalHeuristic(goal, n) ==
    LET dx == goal.x - n.x
        dy == goal.y - n.y
        dz == goal.z - n.z
    IN  F32Add(F32Add(F32From(dx * dx), F32From(dy * dy)), F32From(dz * dz))

\* goals.rs:14-16
BlockPosGoalSuccess(goal, n) == n = goal

\* the open set's mark of a position that is not in it; priorities are not
\* negative
MoNotQueued == 0 - 1

\* astar.rs:42-62 with W = f32: the `for neighbor in successors(current_node)`
\* loop from its i-th edge on
RECURSIVE MoRelax(_, _, _, _, _, _)
MoRelax(nodes, open, heuristic, current_node, edges, i) ==
    IF i > Len(edges) THEN [nodes |-> nodes, open |-> open]
    ELSE
    LET neighbor == edges[i]
        target == neighbor.movement.target
        current_g_score == IF nodes[current_node].known THEN nodes[current_node].g_score
                           ELSE F32Max
        tentative_g_score == F32Add(current_g_score, neighbor.cost)
        neighbor_g_score == IF nodes[target].known THEN nodes[target].g_score ELSE F32Max
    IN  IF tentative_g_score < neighbor_g_score
        THEN LET f_score == F32Add(tentative_g_score, heuristic[target])
             IN  MoRelax([nodes EXCEPT ![target] =
                              [known |-> TRUE, position |-> target,
                               movement_data |-> neighbor.movement.data,
                               came_from |-> <<current_node>>,
                               g_score |-> tentative_g_score, f_score |-> f_score]],
                         [open EXCEPT ![target] = f_score],
                         heuristic, current_node, edges, i + 1)
        ELSE MoRelax(nodes, open, heuristic, current_node, edges, i + 1)

NoEdges == [asked |-> FALSE]
NoGoal == [x |-> -1, y |-> -1, z |-> -1]
MoveStart == BlockPosNew(0, 1, 0)
MoveGoals == {BlockPosNew(2, 1, 0), BlockPosNew(3, 1, 0), BlockPosNew(1, 2, 1)}
MoveNodes == {p \in MovePositions : p.y \in {1, 2} /\ p.x <= 1}
\* the blocks the model changes: those of the two lowest layers
MoveBuildPositions == {p \in MovePositions : p.y <= min_y + 1}

\* chunks.set_block_state(pos, state), as the tests of moves.rs:250-335 build
\* their worlds
MoSetBlockState ==
    /\ mo_pc = "idle"
    /\ mo_sets < MaxBlockSets
    /\ \E pos \in MoveBuildPositions, block \in Blocks :
        /\ mo_world[pos] # block
        /\ mo_world' = [mo_world EXCEPT ![pos] = block]
    /\ mo_sets' = mo_sets + 1
    /\ mo_asked' = NoEdges
    /\ UNCHANGED <<mo_goal, mo_open, mo_nodes, mo_pc, mo_result>>
    /\ UNCHANGED moOther

\* mod.rs:193-204: the successors closure is called for one node
MoSuccessors ==
    /\ mo_pc = "idle"
    /\ \E node \in MoveNodes :
        mo_asked' = [asked |-> TRUE, node |-> node,
                     edges |-> move_successors(mo_world, node)]
    /\ UNCHANGED <<mo_world, mo_sets, mo_goal, mo_open, mo_nodes, mo_pc, mo_result>>
    /\ UNCHANGED moOther

\* mod.rs:207-216 and astar.rs:18-30: a_star is called with a BlockPosGoal
MoAStarCall ==
    /\ mo_pc = "idle"
    /\ \E goal \in MoveGoals : mo_goal' = goal
    /\ mo_open' = [p \in MovePositions |->
                     IF p = MoveStart THEN F32From(0) ELSE MoNotQueued]
    /\ mo_nodes' = [p \in MovePositions |->
                      IF p = MoveStart
                      THEN [known |-> TRUE, position |-> MoveStart, movement_data |-> 0,
                            came_from |-> <<>>, g_score |-> F32From(0), f_score |-> F32Max]
                      ELSE NoNode]
    /\ mo_pc' = "loop"
    /\ mo_asked' = NoEdges
    /\ UNCHANGED <<mo_world, mo_sets, mo_result>>
    /\ UNCHANGED moOther

MoQueued == {p \in MovePositions : mo_open[p] # MoNotQueued}
MoPoppable == {p \in MoQueued : \A q \in MoQueued : mo_open[p] <= mo_open[q]}

\* astar.rs:32-35
MoAStarReturnPath ==
    /\ mo_pc = "loop"
    /\ \E current_node \in MoPoppable :
          /\ BlockPosGoalSuccess(mo_goal, current_node)
          /\ mo_open' = [mo_open EXCEPT ![current_node] = MoNotQueued]
          /\ mo_result' = [some |-> TRUE,
                           path |-> reconstruct_path(mo_nodes, current_node, <<>>),
                           cost |-> mo_nodes[current_node].g_score]
    /\ mo_pc' = "done"
    /\ UNCHANGED <<mo_world, mo_sets, mo_asked, mo_goal, mo_nodes>>
    /\ UNCHANGED moOther

\* astar.rs:32-63
MoAStarExpand ==
    /\ mo_pc = "loop"
    /\ \E current_node \in MoPoppable :
          /\ ~BlockPosGoalSuccess(mo_goal, current_node)
          /\ LET r == MoRelax(mo_nodes, [mo_open EXCEPT ![current_node] = MoNotQueued],
                              [p \in MovePositions |-> BlockPosGoalHeuristic(mo_goal, p)],
                              current_node, move_successors(mo_world, current_node), 1)
             IN  /\ mo_nodes' = r.nodes
                 /\ mo_open' = r.open
    /\ UNCHANGED <<mo_world, mo_sets, mo_asked, mo_goal, mo_pc, mo_result>>
    /\ UNCHANGED moOther

\* astar.rs:32, 65
MoAStarReturnNone ==
    /\ mo_pc = "loop"
    /\ MoQueued = {}
    /\ mo_pc' = "done"
    /\ mo_result' = [some |-> FALSE]
    /\ UNCHANGED <<mo_world, mo_sets, mo_asked, mo_goal, mo_open, mo_nodes>>
    /\ UNCHANGED moOther

\* the world of the tests' floor: stone at min_y, air above
MoFloor == [pos \in MovePositions |-> IF pos.y = min_y THEN "stone" ELSE "air"]

MoInit ==
    /\ mo_world = MoFloor
    /\ mo_sets = 0
    /\ mo_asked = NoEdges
    /\ mo_goal = NoGoal
    /\ mo_open = [p \in MovePositions |-> MoNotQueued]
    /\ mo_nodes = [p \in MovePositions |-> NoNode]
    /\ mo_pc = "idle"
    /\ mo_result = [some |-> FALSE]

MoIdle ==
    /\ mo_world = MoFloor
    /\ mo_sets = 0
    /\ mo_asked = NoEdges
    /\ mo_goal = NoGoal
    /\ mo_open = [p \in MovePositions |-> MoNotQueued]
    /\ mo_nodes = [p \in MovePositions |-> NoNode]
    /\ mo_pc = "off"
    /\ mo_result = [some |-> FALSE]

MoNext ==
    \/ MoSetBlockState
    \/ MoSuccessors
    \/ MoAStarCall
    \/ MoAStarReturnPath
    \/ MoAStarExpand
    \/ MoAStarReturnNone

(***************************************************************************)
(* start_computing_path, handle_tasks and path_found_listener              *)
(***************************************************************************)
\* The number of goto calls the model makes for the entity.
MaxGotos == 2

\* Blocks along a corridor; a goal is a BlockPosGoal at one of them.
PfPositions == 0..2
PfGoals == {0, 2}

\* the movements a_star returns from `start` to `goal` in the corridor: the
\* blocks after `start`, one step at a time
RECURSIVE PfPathTo(_, _)
PfPathTo(start, goal) ==
    IF start = goal THEN <<>>
    ELSE LET next == IF start < goal THEN start + 1 ELSE start - 1
         IN  <<next>> \o PfPathTo(next, goal)

\* mod.rs:141-147, without the test of `computing`
ShouldStartComputingWithGoal(computing, goal) == goal # <<>>

\* mod.rs:141-147: neither computing nor without a goal
ShouldStartComputing(computing, goal) == ~computing /\ goal # <<>>

\* mod.rs:133-232 for the entity: what becomes of computing and of the tasks
start_computing_path(computing, goal, position, tasks) ==
    IF ShouldStartComputing(computing, goal)
    THEN [computing |-> TRUE,
          tasks |-> Append(tasks, [state |-> "running",
                                   path |-> PfPathTo(position, goal[1])])]
    ELSE [computing |-> computing, tasks |-> tasks]

\* execute.rs:118-131: the target of the path's first movement is reached
PfNodeReached(path, queued_path) ==
    IF queued_path # <<>>
    THEN [path |-> queued_path[1], queued_path |-> <<>>]
    ELSE [path |-> Tail(path), queued_path |-> queued_path]

\* execute.rs:55-135: the loop of tick_execute_path, which goes on while the
\* target of the first movement is reached. A path of the corridor has at most
\* two movements, so there is no candidate to skip ahead to (execute.rs:60-69).
RECURSIVE PfExecuteLoop(_, _, _, _)
PfExecuteLoop(path, queued_path, position, on_ground) ==
    IF path = <<>> THEN [path |-> path, queued_path |-> queued_path]
    ELSE IF is_reached(Head(path), position, on_ground)
    THEN PfExecuteLoop(PfNodeReached(path, queued_path).path,
                       PfNodeReached(path, queued_path).queued_path, position, on_ground)
    ELSE [path |-> path, queued_path |-> queued_path]

\* mod.rs:121-131: goal after the SetPathfinderGoalEvents are read
RECURSIVE goto_listener(_, _)
goto_listener(goal, events) ==
    IF events = <<>> THEN goal ELSE goto_listener(Head(events), Tail(events))

\* mod.rs:235-250: the PathFoundEvents of the tasks that are finished
handle_tasks(tasks) ==
    LET finished == SelectSeq(tasks, LAMBDA t : t.state = "finished")
    IN  [i \in 1..Len(finished) |-> [path |-> <<finished[i].path>>]]

\* mod.rs:253-268: the pathfinder after the PathFoundEvents are read
RECURSIVE PfPathFoundListener(_, _)
PfPathFoundListener(pathfinder, events) ==
    IF events = <<>> THEN pathfinder
    ELSE LET event == Head(events)
             found == PathFound(pathfinder.path, pathfinder.queued_path, event.path[1])
         IN  PfPathFoundListener(
                 [computing |-> FALSE,
                  path |-> IF event.path # <<>> THEN found.path ELSE pathfinder.path,
                  queued_path |-> IF event.path # <<>> THEN found.queued_path
                                  ELSE pathfinder.queued_path,
                  applied |-> TRUE],
                 Tail(events))

\* PathfinderClientExt::goto (mod.rs:98-103)
PfGoto ==
    /\ pf_gotos < MaxGotos
    /\ \E goal \in PfGoals : pf_goal_events' = Append(pf_goal_events, <<goal>>)
    /\ pf_gotos' = pf_gotos + 1
    /\ UNCHANGED <<pf_goal, pf_computing, pf_tasks, pf_path, pf_queued_path, pf_position,
                   pf_applied>>
    /\ UNCHANGED pfOther

\* the task's future is ready: a_star has returned in the thread pool
PfTaskCompletes ==
    /\ \E i \in 1..Len(pf_tasks) :
          /\ pf_tasks[i].state = "running"
          /\ pf_tasks' = [pf_tasks EXCEPT ![i].state = "finished"]
    /\ UNCHANGED <<pf_goal, pf_goal_events, pf_gotos, pf_computing, pf_path,
                   pf_queued_path, pf_position, pf_applied>>
    /\ UNCHANGED pfOther

\* mod.rs:51-57: the Update systems goto_listener, handle_tasks and
\* path_found_listener, chained
PfUpdate ==
    /\ pf_goal_events # <<>> \/ \E i \in 1..Len(pf_tasks) : pf_tasks[i].state = "finished"
    /\ LET events == handle_tasks(pf_tasks)
           pathfinder == PfPathFoundListener(
                             [computing |-> pf_computing, path |-> pf_path,
                              queued_path |-> pf_queued_path, applied |-> pf_applied],
                             events)
       IN  /\ pf_goal' = goto_listener(pf_goal, pf_goal_events)
           /\ pf_goal_events' = <<>>
           /\ pf_tasks' = SelectSeq(pf_tasks, LAMBDA t : t.state # "finished")
           /\ pf_computing' = pathfinder.computing
           /\ pf_path' = pathfinder.path
           /\ pf_queued_path' = pathfinder.queued_path
           /\ pf_applied' = pathfinder.applied
    /\ UNCHANGED <<pf_gotos, pf_position>>
    /\ UNCHANGED pfOther

\* mod.rs:40-50: a Minecraft tick, start_computing_path and after it
\* tick_execute_path; the entity is on the ground or not
PfGameTick ==
    /\ LET started == start_computing_path(pf_computing, pf_goal, pf_position, pf_tasks)
       IN  /\ pf_computing' = started.computing
           /\ pf_tasks' = started.tasks
    /\ \E on_ground \in BOOLEAN :
          LET executed == PfExecuteLoop(pf_path, pf_queued_path, pf_position, on_ground)
          IN  /\ pf_path' = executed.path
              /\ pf_queued_path' = executed.queued_path
    /\ UNCHANGED <<pf_goal, pf_goal_events, pf_gotos, pf_position, pf_applied>>
    /\ UNCHANGED pfOther

\* the physics of the walking entity: it comes one block nearer to the target
\* of the path's first movement
PfPhysics ==
    /\ pf_path # <<>>
    /\ pf_position # Head(pf_path)
    /\ pf_position' = IF pf_position < Head(pf_path) THEN pf_position + 1
                      ELSE pf_position - 1
    /\ UNCHANGED <<pf_goal, pf_goal_events, pf_gotos, pf_computing, pf_tasks, pf_path,
                   pf_queued_path, pf_applied>>
    /\ UNCHANGED pfOther

\* mod.rs:61-73: Pathfinder::default() for a player standing in the corridor
PfInit ==
    /\ pf_goal = <<>>
    /\ pf_goal_events = <<>>
    /\ pf_gotos = 0
    /\ pf_computing = FALSE
    /\ pf_tasks = <<>>
    /\ pf_path = <<>>
    /\ pf_queued_path = <<>>
    /\ pf_position \in PfPositions
    /\ pf_applied = FALSE

PfIdle ==
    /\ pf_goal = <<>>
    /\ pf_goal_events = <<>>
    /\ pf_gotos = MaxGotos
    /\ pf_computing = FALSE
    /\ pf_tasks = <<>>
    /\ pf_path = <<>>
    /\ pf_queued_path = <<>>
    /\ pf_position = 0
    /\ pf_applied = FALSE

PfNext ==
    \/ PfGoto
    \/ PfTaskCompletes
    \/ PfUpdate
    \/ PfGameTick
    \/ PfPhysics

(***************************************************************************)
(* Specifications                                                          *)
(***************************************************************************)
InitHandshake == HsInit /\ CfIdle /\ MvIdle /\ SpIdle /\ CmdIdle /\ BsIdle /\ AsIdle /\ PxIdle /\ CwIdle /\ WqIdle /\ RuIdle /\ NbtIdle /\ VxIdle /\ WdIdle /\ StIdle /\ MoIdle /\ PfIdle
NextHandshake == HsNext
SpecHandshake == InitHandshake /\ [][NextHandshake]_vars

InitConfig == CfInit /\ HsIdle /\ MvIdle /\ SpIdle /\ CmdIdle /\ BsIdle /\ AsIdle /\ PxIdle /\ CwIdle /\ WqIdle /\ RuIdle /\ NbtIdle /\ VxIdle /\ WdIdle /\ StIdle /\ MoIdle /\ PfIdle
NextConfig == CfNext
SpecConfig == InitConfig /\ [][NextConfig]_vars

InitMove == MvInit /\ HsIdle /\ CfIdle /\ SpIdle /\ CmdIdle /\ BsIdle /\ AsIdle /\ PxIdle /\ CwIdle /\ WqIdle /\ RuIdle /\ NbtIdle /\ VxIdle /\ WdIdle /\ StIdle /\ MoIdle /\ PfIdle
NextMove == MvNext
SpecMove == InitMove /\ [][NextMove]_vars

InitSprint == SpInit /\ HsIdle /\ CfIdle /\ MvIdle /\ CmdIdle /\ BsIdle /\ AsIdle /\ PxIdle /\ CwIdle /\ WqIdle /\ RuIdle /\ NbtIdle /\ VxIdle /\ WdIdle /\ StIdle /\ MoIdle /\ PfIdle
NextSprint == SpNext
SpecSprint == InitSprint /\ [][NextSprint]_vars

InitCommands == CmdInit /\ HsIdle /\ CfIdle /\ MvIdle /\ SpIdle /\ BsIdle /\ AsIdle /\ PxIdle /\ CwIdle /\ WqIdle /\ RuIdle /\ NbtIdle /\ VxIdle /\ WdIdle /\ StIdle /\ MoIdle /\ PfIdle
NextCommands == CmdNext
SpecCommands == InitCommands /\ [][NextCommands]_vars

InitBitSet == BsInit /\ HsIdle /\ CfIdle /\ MvIdle /\ SpIdle /\ CmdIdle /\ AsIdle /\ PxIdle /\ CwIdle /\ WqIdle /\ RuIdle /\ NbtIdle /\ VxIdle /\ WdIdle /\ StIdle /\ MoIdle /\ PfIdle
NextBitSet == BsNext
SpecBitSet == InitBitSet /\ [][NextBitSet]_vars

InitAStar == AsInit /\ HsIdle /\ CfIdle /\ MvIdle /\ SpIdle /\ CmdIdle /\ BsIdle /\ PxIdle /\ CwIdle /\ WqIdle /\ RuIdle /\ NbtIdle /\ VxIdle /\ WdIdle /\ StIdle /\ MoIdle /\ PfIdle
NextAStar == AsNext
SpecAStar == InitAStar /\ [][NextAStar]_vars
\* a_star runs to its end: the loop's next turn is always taken
InitAStarFair == AsInitAny /\ HsIdle /\ CfIdle /\ MvIdle /\ SpIdle /\ CmdIdle /\ BsIdle /\ PxIdle /\ CwIdle /\ WqIdle /\ RuIdle /\ NbtIdle /\ VxIdle /\ WdIdle /\ StIdle /\ MoIdle /\ PfIdle
SpecAStarFair == InitAStarFair /\ [][NextAStar]_vars /\ WF_vars(NextAStar)

InitPath == PxInit /\ HsIdle /\ CfIdle /\ MvIdle /\ SpIdle /\ CmdIdle /\ BsIdle /\ AsIdle /\ CwIdle /\ WqIdle /\ RuIdle /\ NbtIdle /\ VxIdle /\ WdIdle /\ StIdle /\ MoIdle /\ PfIdle
NextPath == PxNext
SpecPath == InitPath /\ [][NextPath]_vars

InitWalk == CwInit /\ HsIdle /\ CfIdle /\ MvIdle /\ SpIdle /\ CmdIdle /\ BsIdle /\ AsIdle /\ PxIdle /\ WqIdle /\ RuIdle /\ NbtIdle /\ VxIdle /\ WdIdle /\ StIdle /\ MoIdle /\ PfIdle
NextWalk == CwNext
SpecWalk == InitWalk /\ [][NextWalk]_vars

InitOutbound == WqInit /\ HsIdle /\ CfIdle /\ MvIdle /\ SpIdle /\ CmdIdle /\ BsIdle /\ AsIdle /\ PxIdle /\ CwIdle /\ RuIdle /\ NbtIdle /\ VxIdle /\ WdIdle /\ StIdle /\ MoIdle /\ PfIdle
NextOutbound == WqNext
SpecOutbound == InitOutbound /\ [][NextOutbound]_vars

InitRunner == RuInit /\ HsIdle /\ CfIdle /\ MvIdle /\ SpIdle /\ CmdIdle /\ BsIdle /\ AsIdle /\ PxIdle /\ CwIdle /\ WqIdle /\ NbtIdle /\ VxIdle /\ WdIdle /\ StIdle /\ MoIdle /\ PfIdle
NextRunner == RuNext
SpecRunner == InitRunner /\ [][NextRunner]_vars

InitNbt == NbtInit /\ HsIdle /\ CfIdle /\ MvIdle /\ SpIdle /\ CmdIdle /\ BsIdle /\ AsIdle /\ PxIdle /\ CwIdle /\ WqIdle /\ RuIdle /\ VxIdle /\ WdIdle /\ StIdle /\ MoIdle /\ PfIdle
NextNbt == NbtNext
SpecNbt == InitNbt /\ [][NextNbt]_vars

InitVoxel == VxInit /\ HsIdle /\ CfIdle /\ MvIdle /\ SpIdle /\ CmdIdle /\ BsIdle /\ AsIdle /\ PxIdle /\ CwIdle /\ WqIdle /\ RuIdle /\ NbtIdle /\ WdIdle /\ StIdle /\ MoIdle /\ PfIdle
NextVoxel == VxNext
SpecVoxel == InitVoxel /\ [][NextVoxel]_vars

InitWorld == WdInit /\ HsIdle /\ CfIdle /\ MvIdle /\ SpIdle /\ CmdIdle /\ BsIdle /\ AsIdle /\ PxIdle /\ CwIdle /\ WqIdle /\ RuIdle /\ NbtIdle /\ VxIdle /\ StIdle /\ MoIdle /\ PfIdle
NextWorld == WdNext
SpecWorld == InitWorld /\ [][NextWorld]_vars

InitStandable == StInit /\ HsIdle /\ CfIdle /\ MvIdle /\ SpIdle /\ CmdIdle /\ BsIdle /\ AsIdle /\ PxIdle /\ CwIdle /\ WqIdle /\ RuIdle /\ NbtIdle /\ VxIdle /\ WdIdle /\ MoIdle /\ PfIdle
NextStandable == StNext
SpecStandable == InitStandable /\ [][NextStandable]_vars

InitMoves == MoInit /\ HsIdle /\ CfIdle /\ MvIdle /\ SpIdle /\ CmdIdle /\ BsIdle /\ AsIdle /\ PxIdle /\ CwIdle /\ WqIdle /\ RuIdle /\ NbtIdle /\ VxIdle /\ WdIdle /\ StIdle /\ PfIdle
NextMoves == MoNext
SpecMoves == InitMoves /\ [][NextMoves]_vars

InitPathfinder == PfInit /\ HsIdle /\ CfIdle /\ MvIdle /\ SpIdle /\ CmdIdle /\ BsIdle /\ AsIdle /\ PxIdle /\ CwIdle /\ WqIdle /\ RuIdle /\ NbtIdle /\ VxIdle /\ WdIdle /\ StIdle /\ MoIdle
NextPathfinder == PfNext
SpecPathfinder == InitPathfinder /\ [][NextPathfinder]_vars
\* ticks and frames keep coming and every task ends
SpecPathfinderFair ==
    SpecPathfinder /\ WF_vars(PfGameTick) /\ WF_vars(PfUpdate) /\ WF_vars(PfTaskCompletes)

(***************************************************************************)
(* Claims about Client::handshake                                          *)
(***************************************************************************)
HsAuthTrace == SelectSeq(hs_log, LAMBDA e : e.ev \in {"authenticate", "refresh"})
HsKeyWrites == {i \in 1..Len(hs_log) : hs_log[i].ev = "write" /\ hs_log[i].pkt = "Key"}
HsKeySets == {i \in 1..Len(hs_log) : hs_log[i].ev = "set_encryption_key"}
HsErr(what) == hs_pc = "failed" /\ hs_result = [kind |-> "err", what |-> what]
\* handshake is not inside the `while let Err(e) = authenticate(..)` loop
HsAuthLoopOver == hs_pc \notin {"auth", "refresh"}
HsRetryable == {"InvalidSession", "ForbiddenOperation"}

\* the EncryptionRequests read so far, by their place in the log
HsRequests == {i \in 1..Len(hs_log) : hs_log[i].ev = "read" /\ hs_log[i].pkt = "Hello"}
\* what the log holds from the request at i up to the next request
HsRequestEnd(i) ==
    IF \E j \in HsRequests : j > i
    THEN (CHOOSE j \in HsRequests : j > i /\ \A k \in HsRequests : k > i => j <= k) - 1
    ELSE Len(hs_log)
HsRequestSpan(i) == (i + 1)..HsRequestEnd(i)
\* the authenticate and refresh calls made for the request at i
HsAuthTraceOf(i) ==
    SelectSeq(SubSeq(hs_log, i + 1, HsRequestEnd(i)),
              LAMBDA e : e.ev \in {"authenticate", "refresh"})
\* the authenticate loop of the request at i is over
HsAuthLoopOverOf(i) == HsRequestEnd(i) < Len(hs_log) \/ HsAuthLoopOver
\* the request at i has been processed without failing
HsProcessed(i) == HsRequestEnd(i) < Len(hs_log) \/ hs_pc \in {"read", "query", "done"}
HsPacket(j) == hs_log[j].ev \in {"read", "write"}

\* C1 (as amended): handling an EncryptionRequest with an access token calls
\* authenticate at most twice and refresh at most once. The calls are, in order:
\* authenticate; then, only if it failed with InvalidSession or
\* ForbiddenOperation, one refresh; then, only if that refresh succeeded, one
\* retry of authenticate. A first failure with any other error, a failed
\* refresh, or a failed retry makes handshake return that error with no
\* further call. Without an access token neither call is made.
C1_AuthRetryBounded ==
    /\ ~hs_account.token => Len(HsAuthTrace) = 0
    /\ Len(HsAuthTrace) > 0 => HsRequests # {}
    /\ \A r \in HsRequests :
          LET t == HsAuthTraceOf(r)
              n == Len(t)
              authenticates == Cardinality({k \in 1..n : t[k].ev = "authenticate"})
              refreshes == Cardinality({k \in 1..n : t[k].ev = "refresh"})
          IN  /\ authenticates <= 2
              /\ refreshes <= 1
              /\ n <= 3
              /\ n >= 1 => t[1].ev = "authenticate"
              /\ n >= 2 => t[1].arg \in HsRetryable /\ t[2].ev = "refresh"
              /\ n >= 3 => t[2].arg = "Ok" /\ t[3].ev = "authenticate"
              /\ (HsAuthLoopOverOf(r) /\ n >= 1) =>
                    IF t[1].arg = "Ok" THEN n = 1
                    ELSE IF t[1].arg \notin HsRetryable THEN n = 1 /\ HsErr(t[1].arg)
                    ELSE IF n = 2 THEN t[2].arg # "Ok" /\ HsErr("Refresh")
                    ELSE n = 3 /\ (t[3].arg # "Ok" => HsErr(t[3].arg))

\* C1 (as stated): once the authenticate loop of an EncryptionRequest is over,
\* a first failure with InvalidSession or ForbiddenOperation has caused
\* exactly one refresh and exactly one retry.
C1_Original ==
    \A r \in HsRequests :
        LET t == HsAuthTraceOf(r)
        IN  (HsAuthLoopOverOf(r) /\ Len(t) >= 1 /\ t[1].arg \in HsRetryable) =>
                /\ Cardinality({k \in 1..Len(t) : t[k].ev = "refresh"}) = 1
                /\ Cardinality({k \in 1..Len(t) : t[k].ev = "authenticate"}) = 2

\* the retry was made and failed too
C1_Witness ==
    LET t == HsAuthTrace
    IN  Len(t) = 3 /\ t[3].arg = "ForbiddenOperation" /\ HsErr("ForbiddenOperation")

\* C8 (as amended): every EncryptionRequest handled without failure wrote
\* exactly one EncryptionResponse (ServerboundKeyPacket) and installed the
\* cipher right after it, nothing read or written in between; with an access
\* token the last authenticate before the response succeeded; the key
\* installed is the secret carried by the response. The response to the first
\* EncryptionRequest of the handshake went out unencrypted, as did everything
\* before it, and every packet after its installation is encrypted.
C8_ResponseThenCipher ==
    /\ \A r \in HsRequests :
          LET keys == HsKeyWrites \cap HsRequestSpan(r)
              sets == HsKeySets \cap HsRequestSpan(r)
          IN  /\ Cardinality(keys) <= 1
              /\ Cardinality(sets) <= 1
              /\ HsProcessed(r) => Cardinality(keys) = 1 /\ Cardinality(sets) = 1
              /\ \A i \in keys :
                    /\ \A j \in (r + 1)..(i - 1) : hs_log[j].ev \in {"authenticate", "refresh"}
                    /\ i < Len(hs_log) =>
                          /\ hs_log[i + 1].ev = "set_encryption_key"
                          /\ hs_log[i + 1].arg = hs_log[i].arg
                    /\ hs_account.token =>
                          \E j \in (r + 1)..(i - 1) :
                              /\ hs_log[j].ev = "authenticate" /\ hs_log[j].arg = "Ok"
                              /\ \A k \in (j + 1)..(i - 1) :
                                    hs_log[k].ev \notin {"authenticate", "refresh"}
                    /\ (\A q \in HsRequests : r <= q) =>
                          /\ ~hs_log[i].enc
                          /\ \A j \in 1..(i - 1) : ~hs_log[j].enc
                          /\ \A j \in (i + 2)..Len(hs_log) : HsPacket(j) => hs_log[j].enc
    /\ \A i \in HsKeyWrites : \E r \in HsRequests : i \in HsRequestSpan(r)
    /\ \A i \in HsKeySets :
          /\ i - 1 \in HsKeyWrites
          /\ hs_log[i - 1].arg = hs_log[i].arg
          /\ (\A j \in HsKeySets : j <= i) => hs_cipher = hs_log[i].arg
    /\ hs_cipher # NoKey <=> HsKeySets # {}

\* C8 (as stated): whenever an EncryptionRequest is handled without failure,
\* exactly one EncryptionResponse is written and the cipher installed right
\* after it, and that EncryptionResponse is the last unencrypted packet: it
\* went out unencrypted and every packet after it is encrypted.
C8_Original ==
    \A r \in HsRequests :
        LET keys == HsKeyWrites \cap HsRequestSpan(r)
        IN  /\ HsProcessed(r) => Cardinality(keys) = 1
            /\ \A i \in keys :
                  /\ i < Len(hs_log) => hs_log[i + 1].ev = "set_encryption_key"
                  /\ ~hs_log[i].enc
                  /\ \A j \in (i + 2)..Len(hs_log) : HsPacket(j) => hs_log[j].enc

\* a second EncryptionRequest was handled with another secret: its response
\* went out under the first cipher and the cipher was installed again
C8_Witness ==
    /\ hs_account.token
    /\ Cardinality(HsRequests) = 2
    /\ Cardinality(HsKeySets) = 2
    /\ \E i, j \in HsKeyWrites :
          i < j /\ ~hs_log[i].enc /\ hs_log[j].enc /\ hs_log[i].arg # hs_log[j].arg
    /\ hs_cipher = hs_log[Len(hs_log)].arg
    /\ hs_pc = "read"

HsAnsweredWithProfile ==
    /\ ~hs_account.token
    /\ Len(hs_log) >= 3
    /\ hs_log[3].ev = "read"
    /\ hs_log[3].pkt = "GameProfile"

\* C24: with an account without access token and a server that answers the
\* Hello with GameProfile{profile}, handshake has written ClientIntention(Login)
\* and then Hello, was in Handshake before the first write and in Login from
\* then until the GameProfile and is in Game after it, has made no
\* session-server and no refresh call, reads no further login packet and
\* returns the profile of the GameProfile packet.
C24_OfflineHandshake ==
    /\ ~hs_account.token =>
          /\ hs_proto = "Handshake" => hs_log = <<>>
          /\ hs_proto = "Game" => hs_pc = "done"
          /\ (hs_log # <<>> /\ hs_pc # "done") => hs_proto = "Login"
          /\ HsCount("authenticate") = 0
          /\ HsCount("refresh") = 0
    /\ HsAnsweredWithProfile =>
          /\ hs_log = <<[ev |-> "write", pkt |-> "ClientIntention", arg |-> "Login", enc |-> FALSE],
                        [ev |-> "write", pkt |-> "Hello", arg |-> None, enc |-> FALSE],
                        [ev |-> "read", pkt |-> "GameProfile", arg |-> hs_log[3].arg,
                         enc |-> FALSE]>>
          /\ hs_pc = "done"
          /\ hs_proto = "Game"
          /\ hs_result = [kind |-> "ok", what |-> hs_log[3].arg]
          /\ ~ENABLED HsNext

C24_Witness ==
    /\ HsAnsweredWithProfile
    /\ hs_result = [kind |-> "ok", what |-> "bot"]
    /\ hs_proto = "Game"

(***************************************************************************)
(* Claims about the Configuration state                                    *)
(***************************************************************************)
FrameNumbers(seq) == [i \in 1..Len(seq) |-> seq[i].n]
CfOkConfiguration(entry) == entry.as = "Configuration" /\ entry.ok
\* events sent by send_packet_events that process_packet_events has yet to see
CfPending ==
    IF cf_pc \in {"game_send_packet_events", "process_packet_events"}
    THEN FrameNumbers(cf_events) ELSE <<>>
CfReplies(state) ==
    {i \in 1..Len(cf_written) :
        cf_written[i].packet = "FinishConfiguration" /\ cf_written[i].state = state}

\* C2 (as stated): the connection states under which outbound packets are
\* written never go back from Game to Configuration, and the brand and
\* ClientInformation packets queued on entering Configuration are never
\* written once the connection state was set to Game.
C2_Original ==
    /\ \A i, j \in 1..Len(cf_written) :
          i < j => ~(cf_written[i].state = "Game" /\ cf_written[j].state = "Configuration")
    /\ \A i \in 1..Len(cf_written) :
          cf_written[i].packet \in {"CustomPayload(brand)", "ClientInformation"}
              => cf_written[i].state = "Configuration"

\* C5: the frames taken from the incoming queue are the frames the server
\* sent, each taken once and in order; those that deserialise are handed to
\* process_packet_events once each, in the order they were queued, and none
\* is left out when the schedule run is over.
C5_HandedExactlyOnce ==
    /\ FrameNumbers(cf_decoded) \o FrameNumbers(cf_queue) = [i \in 1..cf_sent |-> i]
    /\ FrameNumbers(cf_handed) \o CfPending
          = FrameNumbers(SelectSeq(cf_decoded, CfOkConfiguration))
    /\ \A i, j \in 1..Len(cf_handed) : i < j => cf_handed[i].n < cf_handed[j].n

\* two packets were handed over while the reader had queued a further one
C5_Witness ==
    /\ Len(cf_handed) >= 2
    /\ cf_queue # <<>>
    /\ cf_pc = "send_packet_events"

\* C6 (as stated): every frame is deserialised with the packet set of the
\* phase the server sent it in: a Game frame is deserialised as a Game packet,
\* never as a Configuration packet, and is not discarded.
C6_Original ==
    \A i \in 1..Len(cf_decoded) :
        /\ cf_decoded[i].as = cf_decoded[i].phase
        /\ cf_decoded[i].phase = "Game" => cf_decoded[i].ok

\* C7: the connection is in Game exactly when a FinishConfiguration was
\* processed, and then exactly one serverbound FinishConfiguration was written
\* while the connection was still in Configuration; InConfigurationState is
\* present exactly in Configuration and the game components exactly in Game.
C7_ReplyBeforeGame ==
    /\ Cardinality(CfReplies("Configuration")) = (IF cf_state = "Game" THEN 1 ELSE 0)
    /\ cf_state = "Game" <=>
          \E i \in 1..Len(cf_handed) : cf_handed[i].packet = "FinishConfiguration"
    /\ \A i \in CfReplies("Game") : \E j \in CfReplies("Configuration") : j < i
    /\ cf_in_config <=> cf_state = "Configuration"
    /\ cf_joined <=> cf_state = "Game"

C7_Witness ==
    /\ cf_state = "Game"
    /\ cf_joined
    /\ ~cf_in_config
    /\ CfReplies("Configuration") # {}

\* C37 (as stated): the step that takes the connection from Configuration to
\* Game leaves the entity's ClientInformation component as it was.
C37_Original ==
    [][(cf_state = "Configuration" /\ cf_state' = "Game")
            => cf_client_info' = cf_client_info]_vars

\* C21 (as stated): once a frame has failed to deserialise, no later frame of
\* the connection is dispatched as a PacketEvent (the connection is torn down).
C21_Original ==
    \A i \in 1..Len(cf_decoded) :
        (cf_decoded[i].as = "Configuration" /\ ~cf_decoded[i].ok) =>
            \A k \in 1..Len(cf_events) : cf_events[k].n < cf_decoded[i].n

CfUnknownId(frame) == ConfigurationPacketName(frame.id) = "Unknown"
CfEventsOf(frame, events) == {k \in 1..Len(events) : events[k].n = frame.n}
\* send_packet_events reads the batch in cf_queue of an entity in Configuration
CfReadsBatch ==
    /\ cf_pc = "send_packet_events"
    /\ cf_pc' = "game_send_packet_events"
    /\ cf_in_config
    /\ cf_queue # <<>>
C22_Step ==
    CfReadsBatch =>
        /\ cf_queue' = <<>>
        /\ \A i \in 1..Len(cf_queue) :
              IF CfUnknownId(cf_queue[i])
              THEN CfEventsOf(cf_queue[i], cf_events') = {}
              ELSE cf_queue[i].intact =>
                      /\ Cardinality(CfEventsOf(cf_queue[i], cf_events')) = 1
                      /\ \A k \in CfEventsOf(cf_queue[i], cf_events') :
                            cf_events'[k].packet = ConfigurationPacketName(cf_queue[i].id)
        /\ \A k \in 1..Len(cf_events') :
              \E i \in 1..Len(cf_queue) : cf_queue[i].n = cf_events'[k].n
        /\ \A k, l \in 1..Len(cf_events') : k < l => cf_events'[k].n < cf_events'[l].n

\* C22: a queued frame with an unknown packet id is skipped: it produces no
\* PacketEvent and is removed from the incoming queue, and the other frames
\* of the same batch, before and after it, are still dispatched (once each,
\* when they can be read) in their queued order.
C22_UnknownIdSkipped == [][C22_Step]_vars

\* a batch of three frames was read whose second frame had an unknown id: the
\* first and the third were dispatched
C22_Witness ==
    /\ cf_pc = "game_send_packet_events"
    /\ Len(cf_decoded) = 3
    /\ cf_decoded[2].id = 9
    /\ ~cf_decoded[2].ok
    /\ cf_queue = <<>>
    /\ FrameNumbers(cf_events) = <<1, 3>>

CfHelloPackets(seq) ==
    SelectSeq(seq, LAMBDA packet : packet \in {"CustomPayload(brand)", "ClientInformation"})
CfWrittenNames == [i \in 1..Len(cf_written) |-> cf_written[i].packet]

\* C23 (as stated): once handle_in_configuration_state has run for an entity
\* that entered the Configuration state, exactly two packets were queued for
\* it, the brand custom payload and then ClientInformation, and none again.
C23_Original ==
    ~cf_added =>
        CfHelloPackets(CfWrittenNames) \o CfHelloPackets(cf_send_events)
            = <<"CustomPayload(brand)", "ClientInformation">>

(***************************************************************************)
(* Claims about send_position                                              *)
(***************************************************************************)
MvSquaredDistance(a, b) ==
    (a.x - b.x) * (a.x - b.x) + (a.y - b.y) * (a.y - b.y) + (a.z - b.z) * (a.z - b.z)
\* the entity was (not) moved, turned, or landed/lifted since the last report
MvStill(t) == MvSquaredDistance(t.position, t.last_sent_position) <= MoveEpsilon * MoveEpsilon
MvSameLook(t) == t.direction = t.last_direction
MvSameGround(t) == t.on_ground = t.last_on_ground
MvKinds == {mv_tick.packets[i].kind : i \in 1..Len(mv_tick.packets)}

\* C3 (as amended): an entity in a loaded chunk that has moved at most 2.0e-4
\* since LastSentPosition, whose look direction and on_ground are as last
\* sent, and whose position_remainder is below 20 after this tick's increment
\* (below 19 when the tick starts), emits no movement packet in that tick.
C3_NoPacketWhenStill ==
    (/\ mv_tick.ran
     /\ mv_tick.in_loaded_chunk
     /\ MvStill(mv_tick)
     /\ mv_tick.position_remainder + 1 < PositionRemainderLimit
     /\ MvSameLook(mv_tick)
     /\ MvSameGround(mv_tick))
        => mv_tick.packets = <<>>

\* C3 (as stated): the same with the counter the entity holds when the tick
\* starts below 20.
C3_Original ==
    (/\ mv_tick.ran
     /\ mv_tick.in_loaded_chunk
     /\ MvStill(mv_tick)
     /\ mv_tick.position_remainder < PositionRemainderLimit
     /\ MvSameLook(mv_tick)
     /\ MvSameGround(mv_tick))
        => mv_tick.packets = <<>>

\* a tick of a still entity, standing exactly 2.0e-4 from the place last sent
C3_Witness ==
    /\ mv_tick.ran
    /\ mv_tick.in_loaded_chunk
    /\ MvSquaredDistance(mv_tick.position, mv_tick.last_sent_position)
          = MoveEpsilon * MoveEpsilon
    /\ mv_tick.position_remainder + 1 < PositionRemainderLimit
    /\ MvSameLook(mv_tick)
    /\ MvSameGround(mv_tick)
    /\ mv_tick.packets = <<>>

\* C4: a run of send_position sends at most one movement packet for the
\* entity: PosRot if position and rotation are being sent, else Pos if position
\* is, else Rot if rotation is, else StatusOnly if on_ground changed, else
\* none; position is being sent iff the entity moved more than 2.0e-4 or the
\* incremented position_remainder reached 20, rotation iff yaw or pitch
\* differs from the last sent; an entity outside a loaded chunk sends nothing.
C4_PacketChoice ==
    mv_tick.ran =>
        LET position == ~MvStill(mv_tick)
                          \/ mv_tick.position_remainder + 1 >= PositionRemainderLimit
            rotation == \/ mv_tick.direction.y_rot # mv_tick.last_direction.y_rot
                        \/ mv_tick.direction.x_rot # mv_tick.last_direction.x_rot
        IN  /\ Len(mv_tick.packets) <= 1
            /\ ~mv_tick.in_loaded_chunk => mv_tick.packets = <<>>
            /\ mv_tick.in_loaded_chunk =>
                  MvKinds = IF position /\ rotation THEN {"PosRot"}
                            ELSE IF position THEN {"Pos"}
                            ELSE IF rotation THEN {"Rot"}
                            ELSE IF ~MvSameGround(mv_tick) THEN {"StatusOnly"}
                            ELSE {}

\* position and rotation both changed and one PosRot went out
C4_Witness ==
    /\ mv_tick.ran
    /\ mv_tick.in_loaded_chunk
    /\ ~MvStill(mv_tick)
    /\ ~MvSameLook(mv_tick)
    /\ Len(mv_tick.packets) = 1
    /\ mv_tick.packets[1].kind = "PosRot"

\* C11: LastSentPosition is the position carried by the most recent Pos or
\* PosRot packet and LastSentLookDirection the rotation carried by the most
\* recent Rot or PosRot packet; position_remainder is 0 right after a packet
\* that carries a position; a tick that sends no position leaves
\* LastSentPosition as it was and a tick that sends no rotation leaves
\* LastSentLookDirection as it was.
C11_LastSentIsLastPacket ==
    /\ mv_told.position # <<>> => mv_told.position = <<mv_last_sent_position>>
    /\ mv_told.direction # <<>> => mv_told.direction = <<mv_last_direction>>
    /\ mv_tick.ran =>
          /\ MvKinds \cap {"Pos", "PosRot"} # {} => mv_position_remainder = 0
          /\ MvKinds \cap {"Pos", "PosRot"} = {} =>
                mv_last_sent_position = mv_tick.last_sent_position
          /\ MvKinds \cap {"Rot", "PosRot"} = {} =>
                mv_last_direction = mv_tick.last_direction

\* a PosRot went out for an entity that had moved and turned, after an
\* earlier packet had told the server another place
C11_Witness ==
    /\ mv_tick.ran
    /\ MvKinds = {"PosRot"}
    /\ mv_tick.last_sent_position # mv_tick.position
    /\ mv_tick.last_direction # mv_tick.direction
    /\ mv_tick.last_sent_position # Vec3(0, 0, 0)
    /\ mv_told.position = <<mv_position>>
    /\ mv_told.direction = <<mv_direction>>

\* C31: for an entity in a loaded chunk whose position and rotation are the
\* ones last sent, a run of send_position emits a packet that carries a
\* position exactly when it is the 20th run since the last such packet (or
\* since the spawn), that packet is a Pos, and position_remainder is within
\* 0..19 after every run.
C31_PosEveryTwentiethTick ==
    (mv_tick.ran /\ mv_tick.in_loaded_chunk) =>
        /\ mv_position_remainder \in 0..(PositionRemainderLimit - 1)
        /\ (mv_tick.position = mv_tick.last_sent_position /\ MvSameLook(mv_tick)) =>
              /\ MvKinds \cap {"Pos", "PosRot"} # {}
                    <=> mv_tick.quiet + 1 = PositionRemainderLimit
              /\ MvKinds \subseteq {"Pos", "StatusOnly"}

\* the 20th run in a row for an entity that has not moved or turned: a Pos
\* went out with the unchanged position
C31_Witness ==
    /\ mv_tick.ran
    /\ mv_tick.in_loaded_chunk
    /\ mv_tick.position = mv_tick.last_sent_position
    /\ MvSameLook(mv_tick)
    /\ mv_tick.quiet + 1 = PositionRemainderLimit
    /\ MvKinds = {"Pos"}
    /\ mv_position_remainder = 0
    /\ mv_quiet = 0

\* C38: after every run of send_position that visits the entity (it is in a
\* loaded chunk), last_on_ground equals on_ground; and when the two differed
\* as the run started, the run emitted a packet (PosRot, Pos, Rot or
\* StatusOnly) that carries the new on_ground.
C38_OnGroundNeverStale ==
    (mv_tick.ran /\ mv_tick.in_loaded_chunk) =>
        /\ mv_last_on_ground = mv_on_ground
        /\ ~MvSameGround(mv_tick) =>
              /\ Len(mv_tick.packets) = 1
              /\ mv_tick.packets[1].kind \in {"PosRot", "Pos", "Rot", "StatusOnly"}
              /\ mv_tick.packets[1].on_ground = mv_tick.on_ground
              /\ mv_tick.packets[1].on_ground = mv_last_on_ground

\* the entity landed without moving far or turning: a StatusOnly told the
\* server so
C38_Witness ==
    /\ mv_tick.ran
    /\ mv_tick.in_loaded_chunk
    /\ mv_tick.on_ground
    /\ ~mv_tick.last_on_ground
    /\ MvKinds = {"StatusOnly"}
    /\ mv_tick.packets[1].on_ground
    /\ mv_last_on_ground

(***************************************************************************)
(* Claims about Sprinting and the sprinting modifier                       *)
(***************************************************************************)
SpConsistent(e) == e.sprinting <=> sprinting_modifier \in e.speed_modifiers

\* C10 (as stated): for the client's own player and for the pathfinder's
\* simulated player, Sprinting is true iff the sprinting modifier is present
\* on Attributes.speed.
C10_Original ==
    /\ SpConsistent(sp_player)
    /\ sp_sim.spawned => SpConsistent(sp_sim)

(***************************************************************************)
(* Claims about the sprint and sneak commands                              *)
(***************************************************************************)
CmdOnly(kinds) == SelectSeq(cmd_log, LAMBDA a : a \in kinds)
\* the commands strictly alternate, beginning with `first`
CmdAlternate(seq, first) ==
    /\ Len(seq) > 0 => seq[1] = first
    /\ \A i \in 1..(Len(seq) - 1) : seq[i] # seq[i + 1]
CmdSent(kinds) == {cmd_tick.packets[i] : i \in 1..Len(cmd_tick.packets)} \cap kinds

\* C12: in each tick a sprint command is sent iff Sprinting differs from
\* was_sprinting, StartSprinting when now sprinting and StopSprinting otherwise,
\* and afterwards was_sprinting equals Sprinting; the StartSprinting and
\* StopSprinting commands of the entity strictly alternate, beginning with
\* StartSprinting; the same for PressShiftKey / ReleaseShiftKey with
\* ShiftKeyDown and was_sneaking.
C12_CommandsAlternate ==
    /\ cmd_tick.ran =>
          /\ CmdSent({"StartSprinting", "StopSprinting"}) =
                IF cmd_tick.found.sprinting = cmd_tick.found.was_sprinting THEN {}
                ELSE IF cmd_tick.found.sprinting THEN {"StartSprinting"}
                ELSE {"StopSprinting"}
          /\ cmd_entity.was_sprinting = cmd_entity.sprinting
          /\ CmdSent({"PressShiftKey", "ReleaseShiftKey"}) =
                IF cmd_tick.found.shift_key_down = cmd_tick.found.was_sneaking THEN {}
                ELSE IF cmd_tick.found.shift_key_down THEN {"PressShiftKey"}
                ELSE {"ReleaseShiftKey"}
          /\ cmd_entity.was_sneaking = cmd_entity.shift_key_down
          /\ Len(cmd_tick.packets) <= 2
    /\ CmdAlternate(CmdOnly({"StartSprinting", "StopSprinting"}), "StartSprinting")
    /\ CmdAlternate(CmdOnly({"PressShiftKey", "ReleaseShiftKey"}), "PressShiftKey")

\* the entity started, stopped and started sprinting again, and a tick sent
\* the stop together with a shift key press
C12_Witness ==
    /\ cmd_tick.ran
    /\ cmd_tick.packets = <<"StopSprinting", "PressShiftKey">>
    /\ Len(CmdOnly({"StartSprinting", "StopSprinting"})) >= 2

(***************************************************************************)
(* Claims about BitSet                                                     *)
(***************************************************************************)
BsBits == 0..(bs_size - 1)

\* C13 (as stated): for a BitSet of capacity n and 0 <= a <= b <= n, a >= 64
\* and b a multiple of 64 included, clear(a, b) completes without a panic or
\* shift overflow, afterwards every bit in [a, b) is false and every bit
\* outside [a, b) is as it was.
C13_Original ==
    (bs_op.kind = "clear" /\ bs_op.a <= bs_op.b /\ bs_op.b <= bs_size) =>
        /\ ~bs_op.panic
        /\ \A i \in BsBits :
              BitSetIndex(bs_data, i) =
                  IF bs_op.a <= i /\ i < bs_op.b THEN FALSE ELSE BitSetIndex(bs_op.before, i)

\* C14: a BitSet made by new(size) has every bit false; after set(i) with
\* i < size, index(i) is true and index(j) is as it was for every j # i; a
\* second set(i) changes nothing.
C14_SetAndIndex ==
    /\ bs_op.kind = "new" => \A i \in BsBits : ~BitSetIndex(bs_data, i)
    /\ (bs_op.kind = "set" /\ bs_op.a < bs_size) =>
          /\ ~bs_op.panic
          /\ BitSetIndex(bs_data, bs_op.a)
          /\ \A j \in BsBits \ {bs_op.a} :
                BitSetIndex(bs_data, j) = BitSetIndex(bs_op.before, j)
          /\ BitSetSet(bs_data, bs_op.a) = bs_data

\* bit 65 was set in a BitSet that already held bits 1 and 64
C14_Witness ==
    /\ bs_size = 128
    /\ bs_op.kind = "set"
    /\ bs_op.a = 65
    /\ ~BitSetIndex(bs_op.before, 65)
    /\ BitSetIndex(bs_op.before, 64)
    /\ BitSetIndex(bs_op.before, 1)
    /\ BitSetIndex(bs_data, 65)

(***************************************************************************)
(* Claims about a_star                                                     *)
(***************************************************************************)
\* the position a returned path leaves from at its i-th movement
AsPathFrom(path, i) == IF i = 1 THEN AStarStart ELSE path[i - 1].target
AsPathEnd(path) == IF path = <<>> THEN AStarStart ELSE path[Len(path)].target
\* the i-th movement of the path is an edge of the graph
AsIsEdge(path, i) ==
    /\ path[i].data \in 1..Len(AStarEdges)
    /\ AStarEdges[path[i].data] = [from |-> AsPathFrom(path, i), target |-> path[i].target]
RECURSIVE AsPathCost(_, _)
AsPathCost(path, i) ==
    IF i > Len(path) THEN 0 ELSE as_cost[path[i].data] + AsPathCost(path, i + 1)

AsReturnedBestPath ==
    /\ as_result.some
    /\ \A i \in 1..Len(as_result.path) : AsIsEdge(as_result.path, i)
    /\ AsPathEnd(as_result.path) \in as_success
    /\ AsPathCost(as_result.path, 1) = TrueCost(as_cost, as_success, AStarStart)

\* C15 (as amended): on a finite graph with positive edge costs, a start from
\* which a success position can be reached and a heuristic that is never
\* negative and never exceeds the true remaining cost, a_star returns a path
\* that leaves the start by one of its edges, follows successor edges, ends at
\* a position satisfying success, and costs the least of all paths from the
\* start to a success position.
C15_AStarOptimal ==
    (/\ as_pc = "done"
     /\ TrueCost(as_cost, as_success, AStarStart) < WMax
     /\ \A p \in AStarPositions : as_heuristic[p] >= 0)
        => AsReturnedBestPath

\* C15 (as stated): the same for every heuristic that never exceeds the true
\* remaining cost, negative ones included.
C15_Original ==
    (as_pc = "done" /\ TrueCost(as_cost, as_success, AStarStart) < WMax)
        => AsReturnedBestPath

\* a search that found a cheaper way to a position it had already expanded,
\* and returned the three-edge path 1 -> 2 -> 3 -> 4
C15_Witness ==
    /\ as_pc = "done"
    /\ as_result.some
    /\ Len(as_result.path) = 3
    /\ as_result.path[3].target = 4
    /\ \A p \in AStarPositions : as_heuristic[p] >= 0
    /\ as_heuristic[2] > as_heuristic[3] + as_cost[3]
    /\ AsPathCost(as_result.path, 1) = TrueCost(as_cost, as_success, AStarStart)

\* C34: a_star ends on every graph with positive edge costs; it returns None
\* exactly when no position satisfying success can be reached from the
\* start, and the empty path when the start itself satisfies success.
C34_Answer ==
    as_pc = "done" =>
        /\ as_result.some <=> TrueCost(as_cost, as_success, AStarStart) < WMax
        /\ AStarStart \in as_success => (as_result.some /\ as_result.path = <<>>)
        /\ as_result.some => \A i \in 1..Len(as_result.path) : AsIsEdge(as_result.path, i)
C34_TerminatesWithAnswer == []C34_Answer /\ <>(as_pc = "done")

\* a search that expanded every position it could reach and returned None
C34_Witness ==
    /\ as_pc = "done"
    /\ ~as_result.some
    /\ as_success = {5}
    /\ \A p \in 1..4 : as_nodes[p].known
    /\ AStarQueued = {}

(***************************************************************************)
(* Claims about tick_execute_path                                          *)
(***************************************************************************)
PxOps(kind) == {k \in 1..Len(px_tick.ops) : px_tick.ops[k].op = kind}
PxReached(movement) ==
    movement.target = px_tick.position /\ px_tick.on_ground
\* the indices from `high` down to `low`
PxDescending(low, high) ==
    [k \in 1..(IF high >= low THEN high - low + 1 ELSE 0) |-> high - (k - 1)]
PxMin(a, b) == IF a < b THEN a ELSE b

\* C16: tick_execute_path pops the front movement only when the entity's block
\* position equals that movement's target and the entity is on the ground; it
\* keeps popping within the tick while the new front is reached too, so the
\* tick ends with an empty path or a front that is not reached; a front
\* movement whose target is not reached is never popped.
C16_PopOnlyWhenReached ==
    px_tick.ran =>
        /\ \A k \in PxOps("pop") :
              /\ px_tick.ops[k].front = px_tick.ops[k].before[1]
              /\ PxReached(px_tick.ops[k].front)
              /\ px_tick.ops[k].after = Tail(px_tick.ops[k].before)
        /\ px_path # <<>> => ~PxReached(px_path[1])

\* two movements to the block the entity stands on were popped in one tick
C16_Witness ==
    /\ px_tick.ran
    /\ Cardinality(PxOps("pop")) = 2
    /\ px_path # <<>>

\* C17 (as stated): the skip-ahead candidates are exactly the indices i with
\* 2 <= i < min(len, 10), tried from the highest down; the first whose forward
\* simulation succeeds becomes the new front, the movements before it are
\* dropped and those from it on kept in order; no movement at index 10 or
\* beyond is ever skipped to.
C17_Original ==
    px_tick.ran =>
        \A k \in PxOps("skip") :
            LET o == px_tick.ops[k]
                walkable(i) == o.before[i + 1].target \in px_tick.walkable
            IN  /\ o.candidates = PxDescending(2, PxMin(Len(o.before), 10) - 1)
                /\ o.index < 10
                /\ walkable(o.index)
                /\ \A j \in 1..Len(o.candidates) :
                      o.candidates[j] > o.index => ~walkable(o.candidates[j])
                /\ o.after = SubSeq(o.before, o.index + 1, Len(o.before))

(***************************************************************************)
(* Claims about can_walk_to_position                                       *)
(***************************************************************************)
CwAtTarget(k) == BlockPosFrom(cw_history[k].position) = cw_target
CwLevelAndFree(k) ==
    /\ cw_history[k].position.y = cw_start_pos.y
    /\ ~cw_history[k].horizontal_collision
\* a tick at which the target is reached, all ticks up to it on the starting
\* height and without horizontal collision
CwGoodTick(k) == CwAtTarget(k) /\ \A j \in 1..k : CwLevelAndFree(j)

\* C18: can_walk_to_position returns true iff there is a tick k in 1..20 of
\* the forward simulation at which the simulated entity's block position is
\* the target, with Y equal to the starting Y and no horizontal collision at
\* every tick up to and including k; so it never returns true for a target on
\* another Y level than the entity, nor for one reached through a horizontal
\* collision.
C18_WalkableIffReachedLevel ==
    /\ Len(cw_history) <= SimulationTicks
    /\ cw_result = "true" =>
          /\ \E k \in 1..Len(cw_history) : CwGoodTick(k)
          /\ cw_target.y = BlockPosFrom(cw_start_pos).y
    /\ cw_result = "false" =>
          /\ ~\E k \in 1..Len(cw_history) : CwGoodTick(k)
          /\ \/ Len(cw_history) = SimulationTicks
             \/ ~CwLevelAndFree(Len(cw_history))

\* the entity got to the target block at the twentieth tick, having stood
\* still for a while
C18_Witness ==
    /\ cw_result = "true"
    /\ Len(cw_history) = SimulationTicks
    /\ cw_history[1].position = cw_start_pos

(***************************************************************************)
(* Claims about stopping at the end of a path and about queued paths       *)
(***************************************************************************)
PxStopped(e) == e.move_direction = "None" /\ ~e.trying_to_sprint /\ ~e.sprinting

\* C19: when the last movement of the path is reached and the path becomes
\* empty, the entity ends that update stopped (move_direction None,
\* trying_to_sprint false, Sprinting false) although a StartSprintEvent or a
\* StartWalkEvent(Forward) for it was sent earlier in the tick, whatever the
\* order in which the sprint and walk events were sent.
C19_StoppedAtPathEnd ==
    (px_update.ran /\ px_update.emptied) => PxStopped(px_entity)

\* a sprinting entity reached the last movement: its tick sent a sprint event
\* and then the walk event that stops it
C19_Witness ==
    /\ px_update.ran
    /\ px_update.emptied
    /\ px_update.found.sprinting
    /\ px_update.sprint_events # <<>>
    /\ px_update.walk_events = <<"None">>
    /\ PxStopped(px_entity)

PxIsSuffix(a, b) ==
    \E k \in 0..Len(b) : a = SubSeq(b, k + 1, Len(b))
C20_Delivered ==
    (px_listen.ran /\ px_listen.event # <<>>) =>
        IF px_listen.path = <<>>
        THEN px_path = px_listen.event[1] /\ px_queued_path = px_listen.queued_path
        ELSE px_path = px_listen.path /\ px_queued_path = <<px_listen.event[1]>>
C20_Switched ==
    px_tick.ran =>
        /\ Cardinality(PxOps("switch")) <= 1
        /\ \A k \in PxOps("switch") :
              /\ px_tick.ops[k].before # <<>>
              /\ PxReached(px_tick.ops[k].before[1])
              /\ px_tick.queued_path = <<px_tick.ops[k].after>>
              /\ px_queued_path = <<>>
        /\ PxOps("switch") = {} => px_queued_path = px_tick.queued_path
\* the path is only ever shortened, except by a delivery to an empty path and
\* by the switch to the queued path
C20_Step ==
    ~PxIsSuffix(px_path', px_path) =>
        \/ px_listen'.ran /\ px_path = <<>>
        \/ px_tick'.ran /\ PxOps("switch")' # {}

\* C20: a path delivered by PathFoundEvent while Pathfinder.path is non-empty
\* never replaces the current path mid-movement: it is stored in queued_path
\* and becomes the path only when the current front movement's target is
\* reached; a path delivered while the path is empty becomes the path at
\* once; queued_path is empty again after the switch.
C20_QueuedPathSwitch ==
    /\ [](C20_Delivered /\ C20_Switched)
    /\ [][C20_Step]_vars

\* the entity reached the front of its path and went over to a queued path
\* that is not empty
C20_Witness ==
    /\ px_tick.ran
    /\ px_tick.path # <<>>
    /\ px_tick.queued_path = <<RevisitPath>>
    /\ PxOps("switch") # {}
    /\ px_queued_path = <<>>
    /\ px_path # <<>>

(***************************************************************************)
(* Claims about the outbound packet channel                                *)
(***************************************************************************)
\* C25 (as stated): the number of queued unsent packets never exceeds the
\* capacity of the queue, a send on a full queue waiting instead: for a
\* capacity below the number of packets the scheduler sends, the queue never
\* holds all of them, however late the writer task is scheduled.
C25_Original == Len(wq_queue) < MaxOutbound

(***************************************************************************)
(* Claims about the runner                                                 *)
(***************************************************************************)
RuCount(kind, i) == Cardinality({j \in 1..(i - 1) : ru_log[j].kind = kind})
\* is a schedule run going on when the i-th entry of the log is made
RuDuringRun(i) == RuCount("run_start", i) > RuCount("run_end", i)

\* C26: schedule runs of one scheduler never overlap, whether the ticker or a
\* run-schedule message started them, and every Client method that locks the
\* ECS takes effect before or after a schedule run, never during one.
C26_RunsSerial ==
    /\ \A i \in 1..Len(ru_log) :
          ru_log[i].kind \in {"run_start", "api"} => ~RuDuringRun(i)
    /\ (\E c \in Callers : ru_api[c] \in ClientMethods) => ru_pc # "run"
    /\ ru_pc = "run" => ru_lock = "runner"

\* a run started by the ticker, then the effect of a Client method, then a
\* run started by a run-schedule message
C26_Witness ==
    /\ Len(ru_log) >= 5
    /\ ru_log[1] = [kind |-> "run_start", by |-> "tick"]
    /\ ru_log[2].kind = "run_end"
    /\ ru_log[3] = [kind |-> "api", by |-> "walk"]
    /\ ru_log[4] = [kind |-> "run_start", by |-> "signal"]
    /\ ru_log[5].kind = "run_end"

(***************************************************************************)
(* Claims about NbtCompound                                                *)
(***************************************************************************)
\* C27 (as stated): after any sequence of insert and insert_unsorted calls,
\* for any number of entries, iter() yields the name/value pairs in the
\* order in which they were inserted.
C27_Original == nbt_inner = nbt_inserted

(***************************************************************************)
(* Claims about BitSetDiscreteVoxelShape                                   *)
(***************************************************************************)
VxFilled == vx_fills

\* C28: for a shape made by new(xs, ys, zs) and any sequence of fill(x, y, z)
\* with x < xs, y < ys, z < zs, every full cell lies inside the bounds:
\* is_full(x, y, z) implies first_full_x <= x < last_full_x,
\* first_full_y <= y < last_full_y and first_full_z <= z < last_full_z.
C28_FullInsideBounds ==
    \A x \in 0..(vx_shape.x_size - 1), y \in 0..(vx_shape.y_size - 1),
       z \in 0..(vx_shape.z_size - 1) :
        /\ is_full(vx_shape, x, y, z) <=> <<x, y, z>> \in VxFilled
        /\ is_full(vx_shape, x, y, z) =>
              /\ first_full_x(vx_shape) <= x /\ x < last_full_x(vx_shape)
              /\ first_full_y(vx_shape) <= y /\ y < last_full_y(vx_shape)
              /\ first_full_z(vx_shape) <= z /\ z < last_full_z(vx_shape)

\* a shape wider than it is deep, with two cells filled that differ in all
\* three coordinates
C28_Witness ==
    /\ vx_shape.x_size = 3
    /\ vx_shape.z_size = 2
    /\ {<<2, 0, 1>>, <<0, 1, 0>>} \subseteq VxFilled
    /\ is_full(vx_shape, 2, 0, 1)
    /\ first_full_x(vx_shape) = 0
    /\ last_full_x(vx_shape) = 3

\* C39 (as stated): for a shape made by new(xs, ys, zs) and at least one fill,
\* the bounds are tight on every axis: first_full_x is the least x of a full
\* cell and last_full_x the greatest plus one, and likewise for y and z.
C39_Original ==
    (vx_made = "new" /\ VxFilled # {}) =>
        /\ first_full_x(vx_shape) = VxSetMin({c[1] : c \in VxCells(vx_shape)}, 0)
        /\ last_full_x(vx_shape) = VxSetMax({c[1] : c \in VxCells(vx_shape)}, 0) + 1
        /\ first_full_y(vx_shape) = VxSetMin({c[2] : c \in VxCells(vx_shape)}, 0)
        /\ last_full_y(vx_shape) = VxSetMax({c[2] : c \in VxCells(vx_shape)}, 0) + 1
        /\ first_full_z(vx_shape) = VxSetMin({c[3] : c \in VxCells(vx_shape)}, 0)
        /\ last_full_z(vx_shape) = VxSetMax({c[3] : c \in VxCells(vx_shape)}, 0) + 1

\* C40 (as stated): for every shape made by new, fill, with_filled_bounds or
\* join, is_empty() returns without a panic, and returns true exactly when the
\* shape has no full cell.
C40_Original ==
    is_empty(vx_shape) = (IF VxCells(vx_shape) = {} THEN "true" ELSE "false")

(***************************************************************************)
(* Claims about Dimension                                                  *)
(***************************************************************************)
WdMoved == wd_last.call \in {"set_entity_pos", "move_entity_with_delta"}

\* C29: set_entity_pos and move_entity_with_delta called with an entity id
\* that is not in the entity storage return Err(EntityDoesNotExist) and leave
\* every entity's position and the per-chunk entity index unchanged; called
\* with an existing id they return Ok and afterwards the entity's position
\* is the new position.
C29_MoveEntity ==
    WdMoved =>
        IF wd_last.entity_id \in DOMAIN wd_last.entities
        THEN /\ wd_last.result = "Ok"
             /\ wd_entities[wd_last.entity_id] = wd_last.new_pos
        ELSE /\ wd_last.result = "Err(EntityDoesNotExist)"
             /\ wd_entities = wd_last.entities
             /\ wd_by_chunk = wd_last.by_chunk

\* entity 1 was moved by a delta into another chunk while entity 2 does not exist
C29_Witness ==
    /\ wd_last.call = "move_entity_with_delta"
    /\ wd_last.entity_id = 1
    /\ wd_last.result = "Ok"
    /\ wd_last.entities[1] = 15
    /\ wd_entities[1] = 16
    /\ 1 \in wd_by_chunk[1]
    /\ 2 \notin DOMAIN wd_entities

(***************************************************************************)
(* Claims about the block tests                                            *)
(***************************************************************************)
StLoaded(pos) == pos.x = 0 /\ pos.y \in WorldYs
StHasShape(pos, s) == StLoaded(pos) /\ shape(st_world[pos]) = s

\* C30: is_block_passable(pos) holds iff the chunk storage has a block state
\* at pos and its shape is the empty shape; is_block_solid(pos) iff it has a
\* block state whose shape is the full block shape; is_standable(pos) iff
\* is_block_solid(pos.down(1)), is_block_passable(pos) and
\* is_block_passable(pos.up(1)); so no position is both passable and solid,
\* and a position in a chunk that is not loaded is neither.
C30_BlockTests ==
    st_answer.asked =>
        /\ st_answer.passable <=> StHasShape(st_pos, "empty")
        /\ st_answer.solid <=> StHasShape(st_pos, "block")
        /\ st_answer.standable <=>
              /\ StHasShape(down(st_pos, 1), "block")
              /\ StHasShape(st_pos, "empty")
              /\ StHasShape(up(st_pos, 1), "empty")
        /\ ~(st_answer.passable /\ st_answer.solid)
        /\ ~StLoaded(st_pos) => (~st_answer.passable /\ ~st_answer.solid)

\* the world of test_is_standable with a slab on top: (0, 1, 0) is standable
C30_Witness ==
    /\ st_answer.asked
    /\ st_world = [pos \in StColumn |->
                       IF pos.y = 0 THEN "stone" ELSE IF pos.y = 3 THEN "slab" ELSE "air"]
    /\ st_pos = [x |-> 0, y |-> 1]
    /\ st_answer.standable
    /\ st_answer.passable
    /\ ~st_answer.solid

(***************************************************************************)
(* Claims about the pathfinder's moves and its search                      *)
(***************************************************************************)
\* C32 (as stated): for every world and node, the target of every edge that
\* ForwardMove, AscendMove, DescendMove, DiagonalMove, ParkourForwardMove or
\* ParkourForward2Move returns is standable: the block below it is solid and
\* the target block and the block above it are passable.
C32_Original ==
    mo_asked.asked =>
        \A i \in 1..Len(mo_asked.edges) :
            is_standable(mo_asked.edges[i].movement.target, mo_world)

\* the edges of a graph: <<from, target, cost>>
MoveGraph(world) ==
    UNION {{<<p, move_successors(world, p)[i].movement.target,
              move_successors(world, p)[i].cost>> :
                i \in 1..Len(move_successors(world, p))} : p \in MovePositions}

\* the least cost to each position that can be reached, a set of
\* <<position, cost>>, grown edge by edge until nothing improves; the cost of
\* a path is the f32 sum of its edges from the start on
RECURSIVE MoveCosts(_, _)
MoveCosts(graph, costs) ==
    LET via == {<<ec[1][2], F32Add(ec[2][2], ec[1][3])>> :
                   ec \in {ec \in graph \X costs : ec[1][1] = ec[2][1]}}
        all == costs \cup via
        best == {c \in all : \A d \in all : d[1] = c[1] => c[2] <= d[2]}
    IN  IF best = costs THEN costs ELSE MoveCosts(graph, best)

\* the least cost of a path of moves from MoveStart to the goal
MoveBestCost(world, goal) ==
    LET costs == MoveCosts(MoveGraph(world), {<<MoveStart, 0>>})
    IN  CHOOSE c \in {d[2] : d \in {d \in costs : d[1] = goal}} : TRUE

\* C33 (as stated): with a BlockPosGoal and the moves' costs, the path a_star
\* returns to a goal block that can be reached costs the least of all paths
\* from the start to that block.
C33_Original ==
    (mo_pc = "done" /\ mo_result.some) =>
        mo_result.cost = MoveBestCost(mo_world, mo_goal)

(***************************************************************************)
(* Claims about the path computations of a pathfinder                      *)
(***************************************************************************)
PfInFlight == Len(pf_tasks)

\* C35: at most one path computation of the entity is in flight at any time,
\* and computing is true exactly while there is one; a task is spawned only
\* by a step that finds computing false and sets it; computing returns to
\* false only in a step that applies the PathFoundEvent of a finished task.
C35_Step ==
    /\ Len(pf_tasks') > Len(pf_tasks) => (~pf_computing /\ pf_computing')
    /\ (pf_computing /\ ~pf_computing') =>
          /\ \E i \in 1..Len(pf_tasks) : pf_tasks[i].state = "finished"
          /\ Len(pf_tasks') < Len(pf_tasks)
          /\ pf_applied'
C35_OneComputation ==
    /\ [](PfInFlight <= 1 /\ (pf_computing <=> PfInFlight = 1))
    /\ [][C35_Step]_vars

\* a second goto has been heard while the path to the first goal is still
\* being computed: one task, and the new goal waits for it
C35_Witness ==
    /\ pf_gotos = 2
    /\ pf_goal_events = <<>>
    /\ pf_computing
    /\ Len(pf_tasks) = 1
    /\ pf_tasks[1].state = "running"
    /\ pf_goal # <<>>
    /\ pf_tasks[1].path # PfPathTo(pf_position, pf_goal[1])

\* a path has been found and walked to its end: the entity is on the goal
PfArrived ==
    /\ pf_applied
    /\ pf_goal # <<>>
    /\ pf_path = <<>>
    /\ pf_queued_path = <<>>
    /\ pf_position = pf_goal[1]

\* C36 (as stated): after a single goto, once a path has been found and
\* walked to its end and the entity stands on the goal, there is a tick from
\* which on computing stays false and no task is spawned.
C36_Original ==
    [](pf_gotos <= 1) => [](PfArrived => <>[](~pf_computing /\ pf_tasks = <<>>))

====
